---- MODULE Spec2Model ----
(***************************************************************************)
(* Document question-answering backend: the LangGraph query workflow of    *)
(* rag/services.py (router, retriever, reasoner, utility), the document    *)
(* processing of documents/services.py and documents/views.py that feeds   *)
(* its corpus, and the Document entity of core/domain.                     *)
(*                                                                         *)
(* Text is modelled as a sequence of characters, one string per character; *)
(* a non-ASCII character is written as its code point ("U+062E").          *)
(***************************************************************************)
EXTENDS Integers, Sequences, FiniteSets, TLC

VARIABLES
    \* ---- database (documents app) ----
    docStatus,      \* Document.status of every document row ("NONE": no row)
    chunks,         \* the DocumentChunk rows, [doc, index]
    \* ---- one request handler of DocumentViewSet ----
    hpc,            \* its position inside upload / reprocess / process_document
    hdoc,           \* the document it works on
    hn,             \* number of chunks the text splitter produced
    \* ---- one process_query call ----
    qpc,            \* next node of the compiled graph, "idle" or "done"
    state,          \* the AgentState threaded through the nodes
    result,         \* what process_query returned to its caller
    trace,          \* the nodes executed so far, in order
    llmCalls,       \* number of self.llm.invoke calls of this query
    llmOutcome,     \* "none", "ok" or "fail": how the last llm.invoke ended
    raisedIn,       \* the node an exception escaped from, "" if none
    corpus,         \* the database as the retriever's SELECT saw it
    \* ---- router on arbitrary queries ----
    rpc, rquery, rstate,
    \* ---- Document entity (core/domain) ----
    edoc,           \* the entity's fields
    eop,            \* last method called on it
    eraised,        \* whether that call raised InvalidDocumentStateError
    \* ---- concurrent process_query calls on one orchestrator ----
    cpc,            \* per call: next node of the graph, "idle" or "done"
    cstate,         \* the AgentState records of the calls in progress
    cresult,        \* per call: what process_query returned
    alone,          \* per call: the same call run alone, [state, result]
    \* ---- one hybrid retrieval: backend _retriever_agent or v3 retrieve ----
    fpc,            \* position inside the retrieval
    fimpl,          \* "backend" or "v3"
    fargs,          \* arguments, settings and the raw scores of the chunks
    fvector, \* semantic candidate list handed to fusion
    fbm25,   \* lexical candidate list handed to fusion
    fnormalized,     \* both lists after normalization
    fcombined, \* the fused list, sorted
    ftop,    \* the fused list after the cut to top_k
    freranker, \* <<>>: reranker not called; <<list>>: called with list
    freturned, \* what the retrieval returns
    \* ---- one Reranker.rerank call ----
    kpc,            \* "call" before, "returned" after
    kresults,       \* argument results
    ktop_k,         \* argument top_k
    kreranked,      \* return value
    \* ---- v3: the two indexes behind /upload, /documents/{id}, /reset, /ask ----
    xindexer,       \* indexer.collection: the chunks of the vector store
    xbm25,          \* bm25_retriever: [corpus, bm25 (whether BM25Okapi is set)]
    xresponse,      \* the last request and what its retrieval produced
    \* ---- one citation snippet ----
    npc,            \* "call" before, "returned" after
    nimpl,          \* "citation" (_reasoning_agent) or "get_snippet" (entity)
    ntext,          \* the chunk text
    nsnippet,       \* the snippet made of it
    \* ---- AskQuestionUseCase.execute calls of the request threads ----
    mpc,            \* per thread: position inside execute, "idle" outside
    mdto,           \* per thread: the AskQuestionDTO of its call
    mtable,         \* the ChatMessage table, in order of created_at
    mhistory,       \* per thread: chat_history handed to process_query
    mresult,        \* per thread: rag_result of its call
    moutcome,       \* per thread: how its last call ended
    mround,         \* per thread: number of calls started
    mcompleted,     \* number of calls that returned
    moverlap,       \* whether two calls on one session ever ran at once
    \* ---- ProcessDocumentUseCase.execute calls on one document ----
    ppc,            \* per thread: position inside execute, "idle" outside
    pentity,        \* per thread: the Document entity it loaded
    pn,             \* per thread: number of text chunks of its run
    prun,           \* per thread: the number of its run
    poutcome,       \* per thread: how its last call ended
    pset,           \* per thread: whether the call stored PROCESSING
    ptouched,       \* per thread: whether the call deleted or wrote chunks
    pdoc,           \* the stored document row
    pchunks,        \* the stored chunk rows of the document, [index, run]
    pruns,          \* number of calls started
    poverlap,       \* whether two calls ever ran at the same time
    \* ---- one chunking of a text ----
    zpc,            \* "construct", "call", "loop", "returned" or "rejected"
    zimpl,          \* "use_case" (_chunk_text) or "v3" (DocumentChunker)
    zargs,          \* chunk_size and chunk_overlap given to the constructor
    zsize,          \* self.chunk_size
    zoverlap,       \* self.chunk_overlap
    zlen,           \* len(text), or len(tokens) in v3
    zstart,         \* start, or start_idx in v3
    zchunks,        \* len(chunks)
    ziterations     \* loop iterations run

dbVars == <<docStatus, chunks, hpc, hdoc, hn>>
queryVars == <<qpc, state, result, trace, llmCalls, llmOutcome, raisedIn, corpus>>
routerVars == <<rpc, rquery, rstate>>
entityVars == <<edoc, eop, eraised>>
concVars == <<cpc, cstate, cresult, alone>>
fusionVars == <<fpc, fimpl, fargs, fvector, fbm25, fnormalized,
                fcombined, ftop, freranker, freturned>>
rerankVars == <<kpc, kresults, ktop_k, kreranked>>
indexVars == <<xindexer, xbm25, xresponse>>
coreVars == <<dbVars, queryVars, routerVars, entityVars, concVars, fusionVars, rerankVars>>
snippetVars == <<npc, nimpl, ntext, nsnippet>>
chatVars == <<mpc, mdto, mtable, mhistory, mresult, moutcome, mround,
              mcompleted, moverlap>>
processVars == <<ppc, pentity, pn, prun, poutcome, pset, ptouched, pdoc,
                 pchunks, pruns, poverlap>>
chunkVars == <<zpc, zimpl, zargs, zsize, zoverlap, zlen, zstart, zchunks,
               ziterations>>
moreVars == <<indexVars, snippetVars, chatVars, processVars, chunkVars>>
besideIndexVars == <<coreVars, snippetVars, chatVars, processVars, chunkVars>>
besideSnippetVars == <<coreVars, indexVars, chatVars, processVars, chunkVars>>
besideChatVars == <<coreVars, indexVars, snippetVars, processVars, chunkVars>>
besideProcessVars == <<coreVars, indexVars, snippetVars, chatVars, chunkVars>>
besideChunkVars == <<coreVars, indexVars, snippetVars, chatVars, processVars>>
auxVars == <<concVars, fusionVars, rerankVars, moreVars>>
vars == <<dbVars, queryVars, routerVars, entityVars, auxVars>>

----------------------------------------------------------------------------
(* Bounds *)

\* chunks the text splitter produces for one document: 1..MaxChunks
MaxChunks == 1
\* settings.TOP_K_RETRIEVAL, the number of chunks handed to the reasoner
TOP_K_RETRIEVAL == 2
\* words per query in the router specification
MaxWords == 2
\* values of datetime.now() in the entity specification
MaxClock == 2
\* longest list handed to the reranker
MaxResults == 6
\* longest chunk text a snippet is made of
MaxTextLength == 204
\* execute calls of one request thread
MaxAsks == 2
\* ProcessDocumentUseCase.execute calls on the document
MaxRuns == 3
\* chunks _chunk_text makes of the document's text: 1..MaxProcessChunks
MaxProcessChunks == 2
\* longest text chunked, in characters (tokens in v3)
MaxChunkText == 4
\* loop iterations of one chunking followed
MaxIterations == 6

Docs == {1, 2}
Handlers == {"h1"}

----------------------------------------------------------------------------
(* Text *)

UPPER == <<"A","B","C","D","E","F","G","H","I","J","K","L","M",
           "N","O","P","Q","R","S","T","U","V","W","X","Y","Z">>
LOWER == <<"a","b","c","d","e","f","g","h","i","j","k","l","m",
           "n","o","p","q","r","s","t","u","v","w","x","y","z">>

\* str.lower() on one character
lower_char(c) ==
    IF \E i \in 1..Len(UPPER) : UPPER[i] = c
    THEN LOWER[CHOOSE i \in 1..Len(UPPER) : UPPER[i] = c]
    ELSE c

\* str.lower()
lower(s) == [i \in 1..Len(s) |-> lower_char(s[i])]

\* keyword in query  (substring test)
contains(s, kw) ==
    \E k \in 0..(Len(s) - Len(kw)) :
        \A i \in 1..Len(kw) : s[k + i] = kw[i]

\* any(keyword in query for keyword in keywords)
any_keyword(query, keywords) ==
    \E j \in 1..Len(keywords) : contains(query, keywords[j])

SUMMARIZE_KEYWORDS ==
    << <<"s", "u", "m", "m", "a", "r", "i", "z", "e">>,
       <<"s", "u", "m", "m", "a", "r", "y">>,
       <<"U+062E", "U+0644", "U+0627", "U+0635", "U+0647">>,
       <<"U+062E", "U+0644", "U+0627", "U+0635", "U+0647", " ", "U+06A9", "U+0646">>,
       <<"U+062E", "U+0644", "U+0627", "U+0635", "U+0647", "U+200C", "U+0627", "U+0634", " ", "U+06A9", "U+0646">> >>

TRANSLATE_KEYWORDS ==
    << <<"t", "r", "a", "n", "s", "l", "a", "t", "e">>,
       <<"U+062A", "U+0631", "U+062C", "U+0645", "U+0647">>,
       <<"U+0628", "U+0647", " ", "U+0627", "U+0646", "U+06AF", "U+0644", "U+06CC", "U+0633", "U+06CC">>,
       <<"U+0628", "U+0647", " ", "U+0641", "U+0627", "U+0631", "U+0633", "U+06CC">>,
       <<"t", "r", "a", "n", "s", "l", "a", "t", "i", "o", "n">> >>

CHECKLIST_KEYWORDS ==
    << <<"c", "h", "e", "c", "k", "l", "i", "s", "t">>,
       <<"U+0686", "U+06A9", "U+200C", "U+0644", "U+06CC", "U+0633", "U+062A">>,
       <<"U+0686", "U+06A9", " ", "U+0644", "U+06CC", "U+0633", "U+062A">>,
       <<"l", "i", "s", "t">>,
       <<"t", "a", "s", "k", "s">>,
       <<"U+06A9", "U+0627", "U+0631", "U+0647", "U+0627">> >>

----------------------------------------------------------------------------
(* rag/services.py: the agents as functions AgentState -> AgentState *)

NO_DOCUMENTS == "No documents available for search"
FALLBACK_ANSWER ==
    "I couldn't find relevant information in the uploaded documents to answer your question. Could you please rephrase or ask something else?"
REASONING_APOLOGY == "I encountered an error while generating the answer."
UTILITY_APOLOGY == "I encountered an error processing your request."

\* dict[key] = value
Put(d, key, value) ==
    [k \in (DOMAIN d) \cup {key} |-> IF k = key THEN value ELSE d[k]]

\* dict.get(key, default)
Get(d, key, default) == IF key \in DOMAIN d THEN d[key] ELSE default

EmptyDict == [k \in {} |-> ""]

\* process_query: the initial AgentState
initial_state(query, chat_history) ==
    [query |-> query,
     chat_history |-> chat_history,
     intent |-> "",
     retrieved_chunks |-> <<>>,
     answer |-> "",
     citations |-> <<>>,
     metadata |-> EmptyDict,
     error |-> ""]

\* _router_agent with the query left as the caller wrote it (no .lower())
_router_agent_no_lower(st) ==
    LET query == st.query
        intent == IF any_keyword(query, SUMMARIZE_KEYWORDS) THEN "SUMMARIZE"
                  ELSE IF any_keyword(query, TRANSLATE_KEYWORDS) THEN "TRANSLATE"
                  ELSE IF any_keyword(query, CHECKLIST_KEYWORDS) THEN "CHECKLIST"
                  ELSE "RAG_QUERY"
    IN  [st EXCEPT !.intent = intent,
                   !.metadata = Put(st.metadata, "intent", intent)]

_router_agent(st) ==
    LET query == lower(st.query)
        intent == IF any_keyword(query, SUMMARIZE_KEYWORDS) THEN "SUMMARIZE"
                  ELSE IF any_keyword(query, TRANSLATE_KEYWORDS) THEN "TRANSLATE"
                  ELSE IF any_keyword(query, CHECKLIST_KEYWORDS) THEN "CHECKLIST"
                  ELSE "RAG_QUERY"
    IN  [st EXCEPT !.intent = intent,
                   !.metadata = Put(st.metadata, "intent", intent)]

\* _route_decision sending every intent to the utility node
_route_decision_utility(st) ==
    IF st.intent \in {"RAG_QUERY", "SUMMARIZE", "TRANSLATE", "CHECKLIST"}
    THEN "utility"
    ELSE "end"

\* _route_decision sending every intent to the retriever
_route_decision_retriever(st) ==
    IF st.intent \in {"RAG_QUERY", "SUMMARIZE", "TRANSLATE", "CHECKLIST"}
    THEN "retriever"
    ELSE "end"


_route_decision(st) ==
    LET intent == st.intent
    IN  IF intent = "RAG_QUERY" THEN "retriever"
        ELSE IF intent \in {"SUMMARIZE", "TRANSLATE", "CHECKLIST"} THEN "utility"
        ELSE "end"

----------------------------------------------------------------------------
(* rag/services.py: retrieval.  A result list is a sequence of             *)
(* <<chunk, score>>; scores are fixed-point numbers.                       *)

\* 1.0 of a normalized score
ONE == 1000
\* alpha = 0.7, in tenths
ALPHA == 7

\* raw scores a search may give a chunk: cosine similarity, BM25 score
RawScores == {0, 1}

\* the score vectors a search is given: all chunks equal, one chunk above the
\* rest, or one chunk below the rest
ScoreProfiles(ids) ==
    {f \in [ids -> RawScores] :
        Cardinality({c \in ids : f[c] = 1}) \in {0, 1, Cardinality(ids) - 1}}

Min(S) == CHOOSE x \in S : \A y \in S : x <= y
Max(S) == CHOOSE x \in S : \A y \in S : x >= y
Range(s) == {s[i] : i \in 1..Len(s)}
\* every order in which the elements of a set can be iterated
RECURSIVE Orderings(_)
Orderings(S) ==
    IF S = {} THEN {<<>>}
    ELSE UNION {{<<x>> \o p : p \in Orderings(S \ {x})} : x \in S}

\* list.sort(key=lambda x: x[1], reverse=True): stable, descending by score
sort_by_score(results) ==
    LET n == Len(results)
        before(j, i) == \/ results[j][2] > results[i][2]
                        \/ results[j][2] = results[i][2] /\ j < i
        rank(i) == Cardinality({j \in 1..n : before(j, i)}) + 1
    IN  [k \in 1..n |-> results[CHOOSE i \in 1..n : rank(i) = k]]

\* Meta.ordering = ['document', 'index']
RECURSIVE in_meta_ordering(_)
in_meta_ordering(rows) ==
    IF rows = {} THEN <<>>
    ELSE LET first == CHOOSE a \in rows : \A b \in rows :
                          a.doc < b.doc \/ (a.doc = b.doc /\ a.index <= b.index)
         IN  <<first>> \o in_meta_ordering(rows \ {first})

\* the queryset with the READY filter lost: every chunk row
ready_chunks_unfiltered(status, rows) == in_meta_ordering(rows)

\* DocumentChunk.objects.filter(document__status='READY')
ready_chunks(status, rows) ==
    in_meta_ordering({c \in rows : status[c.doc] = "READY"})

\* _vector_search; similarity[c] is the cosine similarity of chunk c
_vector_search(similarity, all_chunks) ==
    sort_by_score([i \in 1..Len(all_chunks) |-> <<all_chunks[i], similarity[all_chunks[i]]>>])

\* _bm25_search; scores[c] is bm25.get_scores for chunk c
_bm25_search(scores, all_chunks) ==
    sort_by_score([i \in 1..Len(all_chunks) |-> <<all_chunks[i], scores[all_chunks[i]]>>])

\* normalize_scores giving 0.0 instead of 1.0 when all scores are equal
normalize_scores_equal_zero(results) ==
    LET ids == {results[i][1] : i \in 1..Len(results)}
        scores == {results[i][2] : i \in 1..Len(results)}
        score_of(c) == results[CHOOSE i \in 1..Len(results) : results[i][1] = c][2]
    IN  IF results = <<>> THEN [c \in {} |-> 0]
        ELSE IF Max(scores) = Min(scores) THEN [c \in ids |-> 0]
        ELSE [c \in ids |-> ((score_of(c) - Min(scores)) * ONE) \div (Max(scores) - Min(scores))]

\* normalize_scores: chunk id -> normalized score
normalize_scores(results) ==
    LET ids == {results[i][1] : i \in 1..Len(results)}
        scores == {results[i][2] : i \in 1..Len(results)}
        score_of(c) == results[CHOOSE i \in 1..Len(results) : results[i][1] = c][2]
    IN  IF results = <<>> THEN [c \in {} |-> 0]
        ELSE IF Max(scores) = Min(scores) THEN [c \in ids |-> ONE]
        ELSE [c \in ids |-> ((score_of(c) - Min(scores)) * ONE) \div (Max(scores) - Min(scores))]

\* _combine_and_rerank for a given alpha (in tenths); order is the iteration
\* order of the set all_chunk_ids.  Scores are in units of 1/(10*ONE).
combine_and_rerank(vector_results, bm25_results, order, alpha) ==
    LET vector_scores == normalize_scores(vector_results)
        bm25_scores == normalize_scores(bm25_results)
        combined(c) == alpha * Get(vector_scores, c, 0)
                       + (10 - alpha) * Get(bm25_scores, c, 0)
    IN  sort_by_score([i \in 1..Len(order) |-> <<order[i], combined(order[i])>>])

\* _combine_and_rerank as _retriever_agent calls it: alpha has its default
_combine_and_rerank(vector_results, bm25_results, order) ==
    combine_and_rerank(vector_results, bm25_results, order, ALPHA)

\* combined_results[:k]
take(s, k) == SubSeq(s, 1, IF Len(s) < k THEN Len(s) ELSE k)

\* the dicts of retrieved_chunks
format_chunks(top_chunks) ==
    [i \in 1..Len(top_chunks) |->
        [chunk_id |-> top_chunks[i][1],
         document_id |-> top_chunks[i][1].doc,
         chunk_index |-> top_chunks[i][1].index,
         score |-> top_chunks[i][2]]]

\* _retriever_agent when the embedding call raises (except branch)
retriever_embedding_failed(st) ==
    [st EXCEPT !.error = "Retrieval error: embedding failed",
               !.retrieved_chunks = <<>>]

\* the empty-corpus branch returning without recording the error
retriever_no_documents_silent(st) ==
    [st EXCEPT !.retrieved_chunks = <<>>]

\* _retriever_agent when all_chunks.exists() is False
retriever_no_documents(st) ==
    [st EXCEPT !.error = NO_DOCUMENTS, !.retrieved_chunks = <<>>]

\* _retriever_agent from the searches to the end
retriever_search(st, all_chunks, similarity, scores, order) ==
    LET vector_results == _vector_search(similarity, all_chunks)
        bm25_results == _bm25_search(scores, all_chunks)
        combined_results == _combine_and_rerank(vector_results, bm25_results, order)
        retrieved == format_chunks(take(combined_results, TOP_K_RETRIEVAL))
    IN  [st EXCEPT !.retrieved_chunks = retrieved,
                   !.metadata = Put(st.metadata, "num_retrieved", Len(retrieved))]

\* _retriever_agent when BM25Okapi raises on an empty corpus (except branch)
retriever_search_failed(st) ==
    [st EXCEPT !.error = "Retrieval error: division by zero",
               !.retrieved_chunks = <<>>]

----------------------------------------------------------------------------
(* rag/services.py: reasoner, utility and the result of process_query *)

\* chat_history[-4:]
recent_history(chat_history) ==
    SubSeq(chat_history,
           IF Len(chat_history) > 4 THEN Len(chat_history) - 3 ELSE 1,
           Len(chat_history))

\* _reasoning_agent: the prompt building before the try block raises KeyError
\* when an entry of the recent history has no 'role' or no 'content'
reasoning_prompt_raises(st) ==
    /\ st.retrieved_chunks # <<>>
    /\ \E i \in 1..Len(recent_history(st.chat_history)) :
          LET msg == recent_history(st.chat_history)[i]
          IN  ~({"role", "content"} \subseteq DOMAIN msg)

\* str(e) of that KeyError
reasoning_prompt_error(st) ==
    LET h == recent_history(st.chat_history)
        i == CHOOSE i \in 1..Len(h) : ~({"role", "content"} \subseteq DOMAIN h[i])
    IN  IF "role" \notin DOMAIN h[i] THEN "'role'" ELSE "'content'"

\* the citations with the chunk index off by one
build_citations_shifted(chunk_list) ==
    [i \in 1..Len(chunk_list) |->
        [document_id |-> chunk_list[i].document_id,
         chunk_index |-> chunk_list[i].chunk_index + 1]]

\* _reasoning_agent: one citation per chunk of the prompt
build_citations(chunk_list) ==
    [i \in 1..Len(chunk_list) |->
        [document_id |-> chunk_list[i].document_id,
         chunk_index |-> chunk_list[i].chunk_index]]

\* _reasoning_agent without its early return on an empty chunk list
reasoning_needs_llm_always(st) == TRUE

\* _reasoning_agent: whether the model is invoked ("if not chunks: ... return")
reasoning_needs_llm(st) == st.retrieved_chunks # <<>>

\* _reasoning_agent, "if not chunks" branch
reasoning_fallback(st) ==
    [st EXCEPT !.answer = FALLBACK_ANSWER, !.citations = <<>>]

\* _reasoning_agent, try branch after a successful llm.invoke
reasoning_success(st, content) ==
    [st EXCEPT !.answer = content,
               !.citations = build_citations(st.retrieved_chunks),
               !.metadata = Put(st.metadata, "agent_type", "reasoning")]

\* the except branch leaving the citations of the chunks in place
reasoning_failure_keeps_citations(st, message) ==
    [st EXCEPT !.error = "Reasoning error: " \o message,
               !.answer = REASONING_APOLOGY,
               !.citations = build_citations(st.retrieved_chunks)]

\* _reasoning_agent, except branch
reasoning_failure(st, message) ==
    [st EXCEPT !.error = "Reasoning error: " \o message,
               !.answer = REASONING_APOLOGY,
               !.citations = <<>>]

\* intent.lower()
intent_lower(intent) ==
    CASE intent = "SUMMARIZE" -> "summarize"
      [] intent = "TRANSLATE" -> "translate"
      [] intent = "CHECKLIST" -> "checklist"
      [] OTHER -> intent

\* the utility agent citing a chunk in its result
utility_success_cites(st, content) ==
    [st EXCEPT !.answer = content,
               !.citations = <<[document_id |-> 1, chunk_index |-> 0]>>,
               !.metadata = Put(Put(st.metadata, "agent_type", "utility"),
                                "utility_function", intent_lower(st.intent))]

\* _utility_agent, try branch after a successful llm.invoke
utility_success(st, content) ==
    [st EXCEPT !.answer = content,
               !.citations = <<>>,
               !.metadata = Put(Put(st.metadata, "agent_type", "utility"),
                                "utility_function", intent_lower(st.intent))]

\* _utility_agent, "Unknown utility intent" branch
utility_unknown(st) ==
    [st EXCEPT !.error = "Unknown utility intent: " \o st.intent]

\* the except branch recording the error without setting the answer
utility_failure_no_answer(st, message) ==
    [st EXCEPT !.error = "Utility agent error: " \o message]

\* _utility_agent, except branch
utility_failure(st, message) ==
    [st EXCEPT !.error = "Utility agent error: " \o message,
               !.answer = UTILITY_APOLOGY]

NoResult == [pending |-> TRUE]

\* process_query: the dict built from final_state
query_result(final_state) ==
    [answer |-> final_state.answer,
     citations |-> final_state.citations,
     metadata |-> final_state.metadata,
     error |-> final_state.error]

\* process_query without its except clause: the exception reaches the caller
query_exception_propagates(message) == [raised |-> message]

\* process_query: except Exception as e
query_exception(message) ==
    [answer |-> "", citations |-> <<>>, metadata |-> EmptyDict, error |-> message]

----------------------------------------------------------------------------
(* Inputs *)

W_What == <<"W","h","a","t">>
W_is == <<"i","s">>
W_AI == <<"A","I">>
W_Summarize == <<"S","u","m","m","a","r","i","z","e">>
W_summary == <<"s","u","m","m","a","r","y">>
W_Translate == <<"T","r","a","n","s","l","a","t","e">>
W_checklist == <<"c","h","e","c","k","l","i","s","t">>
W_playlist == <<"p","l","a","y","l","i","s","t">>
W_TASKS == <<"T","A","S","K","S">>
W_kholase == <<"U+062E","U+0644","U+0627","U+0635","U+0647">>
W_tarjome == <<"U+062A","U+0631","U+062C","U+0645","U+0647">>
W_chek == <<"U+0686","U+06A9">>
W_list_fa == <<"U+0644","U+06CC","U+0633","U+062A">>

Words == {W_What, W_is, W_AI, W_Summarize, W_summary, W_Translate, W_checklist,
          W_playlist, W_TASKS, W_kholase, W_tarjome, W_chek, W_list_fa}

\* " ".join(words)
RECURSIVE join(_)
join(ws) ==
    IF ws = <<>> THEN <<>>
    ELSE IF Len(ws) = 1 THEN ws[1]
    ELSE ws[1] \o <<" ">> \o join(Tail(ws))

\* the queries of at most MaxWords words
Queries == {join(ws) : ws \in UNION {[1..n -> Words] : n \in 0..MaxWords}}

\* the queries sent through the whole workflow, one per intent
SampleQueries ==
    {join(<<W_What, W_is, W_AI>>), join(<<W_Summarize, W_checklist>>),
     join(<<W_Translate>>), join(<<W_TASKS>>)}

\* chat histories: none, a well-formed exchange, an entry without 'role'
ChatHistories ==
    {<<>>,
     <<[role |-> "user", content |-> "hi"], [role |-> "assistant", content |-> "hello"]>>,
     <<[content |-> "hi"]>>}

\* how llm.invoke ends: a response, or an exception
LlmReplies ==
    {[ok |-> TRUE, text |-> "generated text"], [ok |-> FALSE, text |-> "API Error"]}

----------------------------------------------------------------------------
(* process_query: the compiled graph, one action per node *)

NoCorpus == [status |-> [d \in Docs |-> "NONE"], rows |-> {}]

IdleQuery ==
    /\ qpc = "idle"
    /\ state = initial_state(<<>>, <<>>)
    /\ result = NoResult
    /\ trace = <<>>
    /\ llmCalls = 0
    /\ llmOutcome = "none"
    /\ raisedIn = ""
    /\ corpus = NoCorpus

\* process_query is called: initial_state, graph.invoke starts at the entry point
StartQuery ==
    /\ qpc \in {"idle", "done"}
    /\ \E query \in SampleQueries, chat_history \in ChatHistories :
          state' = initial_state(query, chat_history)
    /\ qpc' = "router"
    /\ result' = NoResult
    /\ trace' = <<>>
    /\ llmCalls' = 0
    /\ llmOutcome' = "none"
    /\ raisedIn' = ""
    /\ corpus' = NoCorpus
    /\ UNCHANGED <<dbVars, routerVars, entityVars, auxVars>>

\* node "router" and its conditional edge
RouterNode ==
    /\ qpc = "router"
    /\ state' = _router_agent(state)
    /\ trace' = Append(trace, "router")
    /\ LET next == _route_decision(state')
       IN  IF next = "end"
           THEN qpc' = "done" /\ result' = query_result(state')
           ELSE qpc' = next /\ result' = result
    /\ UNCHANGED <<llmCalls, llmOutcome, raisedIn, corpus>>
    /\ UNCHANGED <<dbVars, routerVars, entityVars, auxVars>>

\* node "retriever" up to all_chunks.exists()
RetrieverNode ==
    /\ qpc = "retriever"
    /\ trace' = Append(trace, "retriever")
    /\ \E embedded \in BOOLEAN :
          IF ~embedded
          THEN state' = retriever_embedding_failed(state) /\ qpc' = "reasoner"
          ELSE IF ready_chunks(docStatus, chunks) = <<>>
          THEN state' = retriever_no_documents(state) /\ qpc' = "reasoner"
          ELSE state' = state /\ qpc' = "retriever_search"
    /\ UNCHANGED <<result, llmCalls, llmOutcome, raisedIn, corpus>>
    /\ UNCHANGED <<dbVars, routerVars, entityVars, auxVars>>

\* node "retriever": the queryset is evaluated, searched, fused and cut
RetrieverSearch ==
    /\ qpc = "retriever_search"
    /\ LET all_chunks == ready_chunks(docStatus, chunks)
           ids == Range(all_chunks)
       IN  IF all_chunks = <<>>
           THEN state' \in {retriever_search_failed(state),
                            retriever_search(state, <<>>, <<>>, <<>>, <<>>)}
           ELSE \E similarity \in ScoreProfiles(ids), scores \in ScoreProfiles(ids),
                   order \in Orderings(ids) :
                   state' = retriever_search(state, all_chunks, similarity, scores, order)
    /\ qpc' = "reasoner"
    /\ corpus' = [status |-> docStatus, rows |-> chunks]
    /\ UNCHANGED <<result, trace, llmCalls, llmOutcome, raisedIn>>
    /\ UNCHANGED <<dbVars, routerVars, entityVars, auxVars>>

\* node "reasoner", then END and the return of process_query
ReasonerNode ==
    /\ qpc = "reasoner"
    /\ trace' = Append(trace, "reasoner")
    /\ qpc' = "done"
    /\ \E reply \in LlmReplies :
          IF ~reasoning_needs_llm(state)
          THEN /\ state' = reasoning_fallback(state)
               /\ result' = query_result(state')
               /\ UNCHANGED <<llmCalls, llmOutcome, raisedIn>>
          ELSE IF reasoning_prompt_raises(state)
          THEN /\ raisedIn' = "reasoner"
               /\ result' = query_exception(reasoning_prompt_error(state))
               /\ UNCHANGED <<state, llmCalls, llmOutcome>>
          ELSE /\ llmCalls' = llmCalls + 1
               /\ llmOutcome' = IF reply.ok THEN "ok" ELSE "fail"
               /\ state' = IF reply.ok THEN reasoning_success(state, reply.text)
                                       ELSE reasoning_failure(state, reply.text)
               /\ result' = query_result(state')
               /\ UNCHANGED raisedIn
    /\ UNCHANGED corpus
    /\ UNCHANGED <<dbVars, routerVars, entityVars, auxVars>>

\* node "utility", then END and the return of process_query
UtilityNode ==
    /\ qpc = "utility"
    /\ trace' = Append(trace, "utility")
    /\ qpc' = "done"
    /\ \E reply \in LlmReplies :
          IF state.intent \notin {"SUMMARIZE", "TRANSLATE", "CHECKLIST"}
          THEN /\ state' = utility_unknown(state)
               /\ UNCHANGED <<llmCalls, llmOutcome>>
          ELSE /\ llmCalls' = llmCalls + 1
               /\ llmOutcome' = IF reply.ok THEN "ok" ELSE "fail"
               /\ state' = IF reply.ok THEN utility_success(state, reply.text)
                                       ELSE utility_failure(state, reply.text)
    /\ result' = query_result(state')
    /\ UNCHANGED <<raisedIn, corpus>>
    /\ UNCHANGED <<dbVars, routerVars, entityVars, auxVars>>

----------------------------------------------------------------------------
(* documents/views.py and documents/services.py: upload, reprocess and     *)
(* DocumentProcessor.process_document, one action per database statement   *)

Statuses == {"UPLOADED", "PROCESSING", "READY", "FAILED"}

IdleDb ==
    /\ docStatus = [d \in Docs |-> "NONE"]
    /\ chunks = {}
    /\ hpc = [h \in Handlers |-> "idle"]
    /\ hdoc = [h \in Handlers |-> CHOOSE d \in Docs : TRUE]
    /\ hn = [h \in Handlers |-> 0]

\* document.status = s; document.save()
save_status(d, s) == docStatus' = [docStatus EXCEPT ![d] = s]

\* the chunk rows of a document with n chunks
chunk_rows(d, n) == {[doc |-> d, index |-> i] : i \in 0..(n - 1)}

\* DocumentViewSet.upload: Document.objects.create(status=UPLOADED)
Upload(h, d) ==
    /\ hpc[h] = "idle"
    /\ docStatus[d] = "NONE"
    /\ save_status(d, "UPLOADED")
    /\ hpc' = [hpc EXCEPT ![h] = "process_document"]
    /\ hdoc' = [hdoc EXCEPT ![h] = d]
    /\ UNCHANGED <<chunks, hn>>
    /\ UNCHANGED <<queryVars, routerVars, entityVars, auxVars>>

\* DocumentViewSet.reprocess: get_object() and the check that it is FAILED
\* (any other status is answered 400 and changes nothing)
Reprocess(h, d) ==
    /\ hpc[h] = "idle"
    /\ docStatus[d] = "FAILED"
    /\ hpc' = [hpc EXCEPT ![h] = "reset_status"]
    /\ hdoc' = [hdoc EXCEPT ![h] = d]
    /\ UNCHANGED <<docStatus, chunks, hn>>
    /\ UNCHANGED <<queryVars, routerVars, entityVars, auxVars>>

\* DocumentViewSet.reprocess: status = UPLOADED; save()
ReprocessReset(h) ==
    /\ hpc[h] = "reset_status"
    /\ save_status(hdoc[h], "UPLOADED")
    /\ hpc' = [hpc EXCEPT ![h] = "process_document"]
    /\ UNCHANGED <<chunks, hdoc, hn>>
    /\ UNCHANGED <<queryVars, routerVars, entityVars, auxVars>>

\* process_document: status = PROCESSING
ProcessStart(h) ==
    /\ hpc[h] = "process_document"
    /\ save_status(hdoc[h], "PROCESSING")
    /\ hpc' = [hpc EXCEPT ![h] = "extract_text"]
    /\ UNCHANGED <<chunks, hdoc, hn>>
    /\ UNCHANGED <<queryVars, routerVars, entityVars, auxVars>>

\* process_document: _extract_text and _chunk_text; no text or an exception
\* ends the call with status FAILED
ProcessExtract(h) ==
    /\ hpc[h] = "extract_text"
    /\ \E outcome \in {"text", "no_text", "exception"}, n \in 1..MaxChunks :
          IF outcome = "text"
          THEN /\ hn' = [hn EXCEPT ![h] = n]
               /\ hpc' = [hpc EXCEPT ![h] = "delete_chunks"]
               /\ UNCHANGED docStatus
          ELSE /\ save_status(hdoc[h], "FAILED")
               /\ hpc' = [hpc EXCEPT ![h] = "idle"]
               /\ UNCHANGED hn
    /\ UNCHANGED <<chunks, hdoc>>
    /\ UNCHANGED <<queryVars, routerVars, entityVars, auxVars>>

\* _save_chunks: DocumentChunk.objects.filter(document=document).delete()
ProcessDeleteChunks(h) ==
    /\ hpc[h] = "delete_chunks"
    /\ chunks' = {c \in chunks : c.doc # hdoc[h]}
    /\ hpc' = [hpc EXCEPT ![h] = "create_chunks"]
    /\ UNCHANGED <<docStatus, hdoc, hn>>
    /\ UNCHANGED <<queryVars, routerVars, entityVars, auxVars>>

\* _save_chunks: the embeddings, then bulk_create; an embedding failure or a
\* unique_together violation ends process_document with status FAILED
ProcessCreateChunks(h) ==
    /\ hpc[h] = "create_chunks"
    /\ \E embedded \in BOOLEAN :
          IF embedded /\ chunk_rows(hdoc[h], hn[h]) \cap chunks = {}
          THEN /\ chunks' = chunks \cup chunk_rows(hdoc[h], hn[h])
               /\ hpc' = [hpc EXCEPT ![h] = "mark_ready"]
               /\ UNCHANGED docStatus
          ELSE /\ save_status(hdoc[h], "FAILED")
               /\ hpc' = [hpc EXCEPT ![h] = "idle"]
               /\ UNCHANGED chunks
    /\ UNCHANGED <<hdoc, hn>>
    /\ UNCHANGED <<queryVars, routerVars, entityVars, auxVars>>

\* process_document: status = READY
ProcessReady(h) ==
    /\ hpc[h] = "mark_ready"
    /\ save_status(hdoc[h], "READY")
    /\ hpc' = [hpc EXCEPT ![h] = "idle"]
    /\ UNCHANGED <<chunks, hdoc, hn>>
    /\ UNCHANGED <<queryVars, routerVars, entityVars, auxVars>>

----------------------------------------------------------------------------
(* core/domain: DocumentStatus and the Document entity *)

\* valid_transitions with READY allowed to go back to PROCESSING
valid_transitions_ready_reprocess(status) ==
    CASE status = "UPLOADED" -> {"PROCESSING", "FAILED"}
      [] status = "PROCESSING" -> {"READY", "FAILED"}
      [] status = "READY" -> {"PROCESSING"}
      [] status = "FAILED" -> {"PROCESSING"}

\* DocumentStatus.can_transition_to: the valid_transitions table
valid_transitions(status) ==
    CASE status = "UPLOADED" -> {"PROCESSING", "FAILED"}
      [] status = "PROCESSING" -> {"READY", "FAILED"}
      [] status = "READY" -> {}
      [] status = "FAILED" -> {"PROCESSING"}

can_transition_to(status, new_status) == new_status \in valid_transitions(status)

\* Document(...): the dataclass defaults; None is "None" for the message and
\* 0 for processed_at
new_document(status, error_message) ==
    [status |-> status, error_message |-> error_message, num_chunks |-> 0,
     num_pages |-> 0, processed_at |-> 0]

\* each method gives [raised, doc]: whether InvalidDocumentStateError was
\* raised, and the entity afterwards
start_processing(doc) ==
    IF ~can_transition_to(doc.status, "PROCESSING")
    THEN [raised |-> TRUE, doc |-> doc]
    ELSE [raised |-> FALSE,
          doc |-> [doc EXCEPT !.status = "PROCESSING", !.error_message = "None"]]

mark_as_ready(doc, num_chunks, num_pages, now) ==
    IF ~can_transition_to(doc.status, "READY")
    THEN [raised |-> TRUE, doc |-> doc]
    ELSE [raised |-> FALSE,
          doc |-> [doc EXCEPT !.status = "READY", !.num_chunks = num_chunks,
                              !.num_pages = num_pages, !.processed_at = now,
                              !.error_message = "None"]]

mark_as_failed(doc, error_message) ==
    IF ~can_transition_to(doc.status, "FAILED")
    THEN [raised |-> TRUE, doc |-> doc]
    ELSE [raised |-> FALSE,
          doc |-> [doc EXCEPT !.status = "FAILED", !.error_message = error_message]]

----------------------------------------------------------------------------
(* rag/services.py: several process_query calls running on one             *)
(* RAGOrchestrator at the same time, each node one atomic step             *)

\* node "retriever" as a whole, for given outcomes of the embedding call and
\* of the two searches
_retriever_agent(st, status, rows, embedded, similarity, scores, order) ==
    LET all_chunks == ready_chunks(status, rows)
    IN  IF ~embedded THEN retriever_embedding_failed(st)
        ELSE IF all_chunks = <<>> THEN retriever_no_documents(st)
        ELSE retriever_search(st, all_chunks, similarity, scores, order)

\* node "reasoner" followed by the return of process_query: the final state
\* and the dict handed to the caller
_reasoning_agent(st, reply) ==
    IF ~reasoning_needs_llm(st)
    THEN [state |-> reasoning_fallback(st),
          result |-> query_result(reasoning_fallback(st))]
    ELSE IF reasoning_prompt_raises(st)
    THEN [state |-> st, result |-> query_exception(reasoning_prompt_error(st))]
    ELSE IF reply.ok
    THEN [state |-> reasoning_success(st, reply.text),
          result |-> query_result(reasoning_success(st, reply.text))]
    ELSE [state |-> reasoning_failure(st, reply.text),
          result |-> query_result(reasoning_failure(st, reply.text))]

\* node "utility" followed by the return of process_query
_utility_agent(st, reply) ==
    LET final_state ==
            IF st.intent \notin {"SUMMARIZE", "TRANSLATE", "CHECKLIST"}
            THEN utility_unknown(st)
            ELSE IF reply.ok THEN utility_success(st, reply.text)
            ELSE utility_failure(st, reply.text)
    IN  [state |-> final_state, result |-> query_result(final_state)]

\* the calls in progress
Calls == {"q1", "q2"}

\* every call keeping its AgentState in one place on the orchestrator
state_slot_shared(q) == "q1"

\* process_query: initial_state is a local of the call, a fresh dict per call
state_slot(q) == q

IdleConcurrent ==
    /\ cpc = [q \in Calls |-> "off"]
    /\ cstate = [q \in Calls |-> initial_state(<<>>, <<>>)]
    /\ cresult = [q \in Calls |-> NoResult]
    /\ alone = [q \in Calls |-> [state |-> initial_state(<<>>, <<>>), result |-> NoResult]]

\* a caller enters process_query
CallStart(q) ==
    /\ cpc[q] = "idle"
    /\ \E query \in SampleQueries, chat_history \in ChatHistories :
          /\ cstate' = [cstate EXCEPT ![state_slot(q)] = initial_state(query, chat_history)]
          /\ alone' = [alone EXCEPT ![q] = [state |-> initial_state(query, chat_history),
                                            result |-> NoResult]]
    /\ cpc' = [cpc EXCEPT ![q] = "router"]
    /\ UNCHANGED cresult
    /\ UNCHANGED <<dbVars, queryVars, routerVars, entityVars, fusionVars, rerankVars, moreVars>>

\* node "router" of call q and its conditional edge
CallRouter(q) ==
    /\ cpc[q] = "router"
    /\ LET st == _router_agent(cstate[state_slot(q)])
           next == _route_decision(st)
       IN  /\ cstate' = [cstate EXCEPT ![state_slot(q)] = st]
           /\ cpc' = [cpc EXCEPT ![q] = IF next = "end" THEN "done" ELSE next]
           /\ cresult' = IF next = "end" THEN [cresult EXCEPT ![q] = query_result(st)]
                                         ELSE cresult
    /\ alone' = [alone EXCEPT ![q].state = _router_agent(@),
                              ![q].result = IF _route_decision(_router_agent(alone[q].state)) = "end"
                                            THEN query_result(_router_agent(alone[q].state))
                                            ELSE @]
    /\ UNCHANGED <<dbVars, queryVars, routerVars, entityVars, fusionVars, rerankVars, moreVars>>

\* node "retriever" of call q
CallRetriever(q) ==
    /\ cpc[q] = "retriever"
    /\ LET ids == Range(ready_chunks(docStatus, chunks))
       IN  \E embedded \in BOOLEAN, similarity \in ScoreProfiles(ids),
              scores \in ScoreProfiles(ids), order \in Orderings(ids) :
              /\ cstate' = [cstate EXCEPT ![state_slot(q)] =
                               _retriever_agent(@, docStatus, chunks, embedded,
                                                similarity, scores, order)]
              /\ alone' = [alone EXCEPT ![q].state =
                               _retriever_agent(@, docStatus, chunks, embedded,
                                                similarity, scores, order)]
    /\ cpc' = [cpc EXCEPT ![q] = "reasoner"]
    /\ UNCHANGED cresult
    /\ UNCHANGED <<dbVars, queryVars, routerVars, entityVars, fusionVars, rerankVars, moreVars>>

\* node "reasoner" of call q, END, and the return of process_query
CallReasoner(q) ==
    /\ cpc[q] = "reasoner"
    /\ \E reply \in LlmReplies :
          LET out == _reasoning_agent(cstate[state_slot(q)], reply)
          IN  /\ cstate' = [cstate EXCEPT ![state_slot(q)] = out.state]
              /\ cresult' = [cresult EXCEPT ![q] = out.result]
              /\ alone' = [alone EXCEPT ![q] = _reasoning_agent(@.state, reply)]
    /\ cpc' = [cpc EXCEPT ![q] = "done"]
    /\ UNCHANGED <<dbVars, queryVars, routerVars, entityVars, fusionVars, rerankVars, moreVars>>

\* node "utility" of call q, END, and the return of process_query
CallUtility(q) ==
    /\ cpc[q] = "utility"
    /\ \E reply \in LlmReplies :
          LET out == _utility_agent(cstate[state_slot(q)], reply)
          IN  /\ cstate' = [cstate EXCEPT ![state_slot(q)] = out.state]
              /\ cresult' = [cresult EXCEPT ![q] = out.result]
              /\ alone' = [alone EXCEPT ![q] = _utility_agent(@.state, reply)]
    /\ cpc' = [cpc EXCEPT ![q] = "done"]
    /\ UNCHANGED <<dbVars, queryVars, routerVars, entityVars, fusionVars, rerankVars, moreVars>>


----------------------------------------------------------------------------
(* v3/document-qa-system/src/retrieval: HybridRetriever and Reranker.      *)
(* A candidate is [chunk, score], a chunk is [chunk_id, document_id]; an   *)
(* optional argument is <<>> (None) or <<value>>.  Weights are in tenths,  *)
(* normalized scores in units of 1/ONE, hybrid scores in units of          *)
(* 1/(10*ONE).                                                             *)

\* settings.py defaults
settings_top_k_retrieval == 5
settings_rerank_top_k == 3
settings_bm25_weight == 5
settings_vector_weight == 5

\* 1.0 of a hybrid score
HYBRID_ONE == 10 * ONE

\* Python's "value or default": None and 0 are both falsy
or_default(value, default) ==
    IF value = <<>> \/ value = <<0>> THEN default ELSE value[1]

\* HybridRetriever.__init__ taking a weight of 0 as given
hybrid_weights_keep_zero(bm25_weight, vector_weight) ==
    [bm25_weight |-> IF bm25_weight = <<>> THEN settings_bm25_weight ELSE bm25_weight[1],
     vector_weight |-> IF vector_weight = <<>> THEN settings_vector_weight ELSE vector_weight[1]]

\* HybridRetriever.__init__: self.bm25_weight, self.vector_weight
hybrid_weights(bm25_weight, vector_weight) ==
    [bm25_weight |-> or_default(bm25_weight, settings_bm25_weight),
     vector_weight |-> or_default(vector_weight, settings_vector_weight)]

\* the sort putting the later of two results with equal score first
sort_results_unstable(results) ==
    LET n == Len(results)
        before(j, i) == \/ results[j].score > results[i].score
                        \/ results[j].score = results[i].score /\ j > i
        rank(i) == Cardinality({j \in 1..n : before(j, i)}) + 1
    IN  [k \in 1..n |-> results[CHOOSE i \in 1..n : rank(i) = k]]

\* results.sort(key=lambda x: x["score"], reverse=True): stable, descending
sort_results(results) ==
    LET n == Len(results)
        before(j, i) == \/ results[j].score > results[i].score
                        \/ results[j].score = results[i].score /\ j < i
        rank(i) == Cardinality({j \in 1..n : before(j, i)}) + 1
    IN  [k \in 1..n |-> results[CHOOSE i \in 1..n : rank(i) = k]]

\* VectorRetriever.retrieve returning every chunk of the collection
vector_retrieve_uncapped(similarity, corpus_chunks, top_k) ==
    sort_results([i \in 1..Len(corpus_chunks) |->
                     [chunk |-> corpus_chunks[i],
                      score |-> similarity[corpus_chunks[i].chunk_id]]])

\* VectorRetriever.retrieve: the top_k nearest chunks of the collection, each
\* with similarity 1/(1 + distance); similarity[c] is that score of chunk c
vector_retrieve(similarity, corpus_chunks, top_k) ==
    take(sort_results([i \in 1..Len(corpus_chunks) |->
                          [chunk |-> corpus_chunks[i],
                           score |-> similarity[corpus_chunks[i].chunk_id]]]),
         top_k)

\* BM25Retriever.retrieve: the top_k indices by score, those scoring 0 dropped
bm25_retrieve(scores, corpus_chunks, top_k) ==
    LET relevant(r) == r.score > 0
    IN  SelectSeq(take(sort_results([i \in 1..Len(corpus_chunks) |->
                                        [chunk |-> corpus_chunks[i],
                                         score |-> scores[corpus_chunks[i].chunk_id]]]),
                       top_k),
                  relevant)

\* HybridRetriever._normalize_scores: adds normalized_score to every result
_normalize_scores(results) ==
    LET scores == {results[i].score : i \in 1..Len(results)}
        min_score == Min(scores)
        max_score == Max(scores)
    IN  IF results = <<>> THEN results
        ELSE [i \in 1..Len(results) |->
                [chunk |-> results[i].chunk,
                 score |-> results[i].score,
                 normalized_score |->
                    IF max_score = min_score THEN ONE
                    ELSE ((results[i].score - min_score) * ONE) \div (max_score - min_score)]]

\* helpers.calculate_similarity_score
calculate_similarity_score(bm25_score, vector_score, bm25_weight, vector_weight) ==
    (bm25_score * bm25_weight) + (vector_score * vector_weight)

\* _combine_results leaving out the BM25 results the vector search missed
_combine_results_vector_only(vector_results, bm25_results, weights) ==
    LET normalized(results, chunk_id) ==
            IF \E i \in 1..Len(results) : results[i].chunk.chunk_id = chunk_id
            THEN results[CHOOSE i \in 1..Len(results) :
                            results[i].chunk.chunk_id = chunk_id].normalized_score
            ELSE 0
    IN  [i \in 1..Len(vector_results) |->
            [chunk |-> vector_results[i].chunk,
             score |-> calculate_similarity_score(
                          normalized(bm25_results, vector_results[i].chunk.chunk_id),
                          normalized(vector_results, vector_results[i].chunk.chunk_id),
                          weights.bm25_weight, weights.vector_weight)]]

\* HybridRetriever._combine_results: result_map keeps insertion order, the
\* vector results first, then the BM25 results not yet in the map
_combine_results(vector_results, bm25_results, weights) ==
    LET vector_ids == {vector_results[i].chunk.chunk_id : i \in 1..Len(vector_results)}
        new(r) == r.chunk.chunk_id \notin vector_ids
        entries == vector_results \o SelectSeq(bm25_results, new)
        normalized(results, chunk_id) ==
            IF \E i \in 1..Len(results) : results[i].chunk.chunk_id = chunk_id
            THEN results[CHOOSE i \in 1..Len(results) :
                            results[i].chunk.chunk_id = chunk_id].normalized_score
            ELSE 0
    IN  [i \in 1..Len(entries) |->
            [chunk |-> entries[i].chunk,
             score |-> calculate_similarity_score(
                          normalized(bm25_results, entries[i].chunk.chunk_id),
                          normalized(vector_results, entries[i].chunk.chunk_id),
                          weights.bm25_weight, weights.vector_weight)]]

\* 1.0 of a diversity score; 1/(1 + n) is exact for n up to 5
DIVERSITY_ONE == 60

\* Reranker._calculate_diversity
_calculate_diversity(candidate, selected) ==
    LET same_doc_count ==
            Cardinality({i \in 1..Len(selected) :
                            selected[i].chunk.document_id = candidate.chunk.document_id})
    IN  IF selected = <<>> THEN DIVERSITY_ONE
        ELSE DIVERSITY_ONE \div (1 + same_doc_count)

\* 0.7 * candidate.score + 0.3 * diversity_score,
\* in units of 1/(10 * HYBRID_ONE * DIVERSITY_ONE)
combined_score(candidate, selected) ==
    7 * candidate.score * DIVERSITY_ONE
    + 3 * _calculate_diversity(candidate, selected) * HYBRID_ONE

\* best_score = -1
INITIAL_BEST_SCORE == -1 * 10 * HYBRID_ONE * DIVERSITY_ONE

\* list.remove(x): drops the first element equal to x
list_remove(s, x) ==
    LET j == CHOOSE j \in 1..Len(s) : s[j] = x /\ \A i \in 1..(j - 1) : s[i] # x
    IN  SubSeq(s, 1, j - 1) \o SubSeq(s, j + 1, Len(s))

\* the for loop over remaining taking the last of the best candidates
best_candidate_last(selected, remaining) ==
    LET scored == {i \in 1..Len(remaining) :
                      combined_score(remaining[i], selected) > INITIAL_BEST_SCORE}
    IN  IF scored = {} THEN 0
        ELSE CHOOSE i \in scored :
                \A j \in scored :
                    \/ combined_score(remaining[j], selected) < combined_score(remaining[i], selected)
                    \/ combined_score(remaining[j], selected) = combined_score(remaining[i], selected)
                       /\ j <= i

\* Reranker._diversity_rerank, the for loop over remaining: the index of the
\* first candidate whose combined score is the highest and above best_score's
\* initial value; 0 when there is none
best_candidate(selected, remaining) ==
    LET scored == {i \in 1..Len(remaining) :
                      combined_score(remaining[i], selected) > INITIAL_BEST_SCORE}
    IN  IF scored = {} THEN 0
        ELSE CHOOSE i \in scored :
                \A j \in scored :
                    \/ combined_score(remaining[j], selected) < combined_score(remaining[i], selected)
                    \/ combined_score(remaining[j], selected) = combined_score(remaining[i], selected)
                       /\ i <= j

\* Reranker._diversity_rerank, the while loop
RECURSIVE diversity_loop(_, _, _)
diversity_loop(selected, remaining, top_k) ==
    IF ~(Len(selected) < top_k /\ remaining # <<>>) THEN selected
    ELSE LET best == best_candidate(selected, remaining)
         IN  IF best = 0 THEN selected
             ELSE diversity_loop(Append(selected, remaining[best]),
                                 list_remove(remaining, remaining[best]), top_k)

\* _diversity_rerank without the cut to top_k
_diversity_rerank_uncut(results, top_k) ==
    IF results = <<>> THEN <<>>
    ELSE diversity_loop(<<results[1]>>, Tail(results), Len(results))

\* Reranker._diversity_rerank
_diversity_rerank(results, top_k) ==
    IF results = <<>> THEN <<>>
    ELSE diversity_loop(<<results[1]>>, Tail(results), top_k)

\* Reranker.rerank
rerank(results, top_k) ==
    IF results = <<>> THEN results
    ELSE LET k == or_default(top_k, settings_rerank_top_k)
         IN  IF Len(results) <= k THEN results
             ELSE _diversity_rerank(results, k)

\* reranker.rerank_results
rerank_results(results, top_k) == rerank(results, top_k)


----------------------------------------------------------------------------
(* One hybrid retrieval, from the two searches to the returned list, as    *)
(* rag/services.py (_retriever_agent) and as v3 (HybridRetriever.retrieve) *)
(* run it                                                                  *)

\* the chunks of the corpus, in index order
FusionChunks ==
    <<[chunk_id |-> 1, document_id |-> "A"],
      [chunk_id |-> 2, document_id |-> "A"],
      [chunk_id |-> 8, document_id |-> "B"]>>

FusionChunkIds == {FusionChunks[i].chunk_id : i \in 1..Len(FusionChunks)}

\* raw scores of a search: 1/(1 + distance) or cosine similarity, BM25 score
FusionScores == {0, 1, 2}

\* weights, in tenths
Weights == {0, 7, 10}

\* iteration order of a set of small ints in CPython: by slot, hash & 7 in
\* the table of 8 slots a set of up to 4 elements has
set_iteration_order(ids) ==
    [k \in 1..Cardinality(ids) |->
        CHOOSE c \in ids : Cardinality({d \in ids : d % 8 < c % 8}) = k - 1]

\* the arguments and settings of a backend retrieval
BackendArgs ==
    [top_k : 1..TOP_K_RETRIEVAL, alpha : Weights,
     similarity : [FusionChunkIds -> FusionScores],
     scores : [FusionChunkIds -> FusionScores]]

\* the arguments of HybridRetriever(bm25_weight, vector_weight).retrieve(
\* query, top_k, use_reranking): default weights or a pair adding up to 1
V3Args ==
    {a \in [top_k : {<<>>, <<1>>, <<2>>},
            bm25_weight : {<<>>} \cup {<<10 - w>> : w \in Weights},
            vector_weight : {<<>>} \cup {<<w>> : w \in Weights},
            use_reranking : BOOLEAN,
            similarity : [FusionChunkIds -> FusionScores],
            scores : [FusionChunkIds -> FusionScores]] :
        \/ a.bm25_weight = <<>> /\ a.vector_weight = <<>>
        \/ /\ a.bm25_weight # <<>> /\ a.vector_weight # <<>>
           /\ a.bm25_weight[1] + a.vector_weight[1] = 10}

\* top_k = top_k or settings.top_k_retrieval
v3_top_k(args) == or_default(args.top_k, settings_top_k_retrieval)

IdleFusion ==
    /\ fpc = "off"
    /\ fimpl = "backend"
    /\ fargs = <<>>
    /\ fvector = <<>>
    /\ fbm25 = <<>>
    /\ fnormalized = <<>>
    /\ fcombined = <<>>
    /\ ftop = <<>>
    /\ freranker = <<>>
    /\ freturned = <<>>

IdleRerank ==
    /\ kpc = "off"
    /\ kresults = <<>>
    /\ ktop_k = <<>>
    /\ kreranked = <<>>

\* no request served yet: both indexes empty
IdleIndex ==
    /\ xindexer = <<>>
    /\ xbm25 = [corpus |-> <<>>, bm25 |-> FALSE]
    /\ xresponse = [request |-> "none", document_id |-> <<>>,
                    vector |-> <<>>, bm25 |-> <<>>, returned |-> <<>>]

IdleSnippet ==
    /\ npc = "off"
    /\ nimpl = "citation"
    /\ ntext = <<>>
    /\ nsnippet = <<>>

\* the request threads
Workers == {"w1", "w2"}

NoDto == [session_id |-> 0, question |-> <<>>]
NoRagResult == [answer |-> <<>>]

IdleChat ==
    /\ mpc = [w \in Workers |-> "off"]
    /\ mdto = [w \in Workers |-> NoDto]
    /\ mtable = <<>>
    /\ mhistory = [w \in Workers |-> <<>>]
    /\ mresult = [w \in Workers |-> NoRagResult]
    /\ moutcome = [w \in Workers |-> "none"]
    /\ mround = [w \in Workers |-> 0]
    /\ mcompleted = 0
    /\ moverlap = FALSE

IdleProcess ==
    /\ ppc = [w \in Workers |-> "off"]
    /\ pentity = [w \in Workers |-> new_document("UPLOADED", "None")]
    /\ pn = [w \in Workers |-> 0]
    /\ prun = [w \in Workers |-> 0]
    /\ poutcome = [w \in Workers |-> "none"]
    /\ pset = [w \in Workers |-> FALSE]
    /\ ptouched = [w \in Workers |-> FALSE]
    /\ pdoc = new_document("UPLOADED", "None")
    /\ pchunks = {}
    /\ pruns = 0
    /\ poverlap = FALSE

IdleChunk ==
    /\ zpc = "off"
    /\ zimpl = "use_case"
    /\ zargs = <<>>
    /\ zsize = 0
    /\ zoverlap = 0
    /\ zlen = 0
    /\ zstart = 0
    /\ zchunks = 0
    /\ ziterations = 0

IdleMore == IdleIndex /\ IdleSnippet /\ IdleChat /\ IdleProcess /\ IdleChunk

IdleAux == IdleConcurrent /\ IdleFusion /\ IdleRerank /\ IdleMore

\* backend: _vector_search and _bm25_search over all chunks of READY
\* documents; v3: the two retrievers asked for top_k * 2 results
FusionSearch ==
    /\ fpc = "search"
    /\ IF fimpl = "backend"
       THEN LET all_chunks == [i \in 1..Len(FusionChunks) |-> FusionChunks[i].chunk_id]
            IN  /\ fvector' = _vector_search(fargs.similarity, all_chunks)
                /\ fbm25' = _bm25_search(fargs.scores, all_chunks)
       ELSE /\ fvector' = vector_retrieve(fargs.similarity, FusionChunks,
                                                 v3_top_k(fargs) * 2)
            /\ fbm25' = bm25_retrieve(fargs.scores, FusionChunks,
                                             v3_top_k(fargs) * 2)
    /\ fpc' = "normalize"
    /\ UNCHANGED <<fimpl, fargs, fnormalized, fcombined, ftop,
                   freranker, freturned>>
    /\ UNCHANGED <<dbVars, queryVars, routerVars, entityVars, concVars, rerankVars, moreVars>>

\* backend: normalize_scores of both lists; v3: _normalize_scores of both
FusionNormalize ==
    /\ fpc = "normalize"
    /\ fnormalized' =
          IF fimpl = "backend"
          THEN [vector |-> normalize_scores(fvector),
                bm25 |-> normalize_scores(fbm25)]
          ELSE [vector |-> _normalize_scores(fvector),
                bm25 |-> _normalize_scores(fbm25)]
    /\ fpc' = "combine"
    /\ UNCHANGED <<fimpl, fargs, fvector, fbm25, fcombined,
                   ftop, freranker, freturned>>
    /\ UNCHANGED <<dbVars, queryVars, routerVars, entityVars, concVars, rerankVars, moreVars>>

\* backend: the rest of _combine_and_rerank; v3: _combine_results and the
\* sort by hybrid score
FusionCombine ==
    /\ fpc = "combine"
    /\ fcombined' =
          IF fimpl = "backend"
          THEN combine_and_rerank(
                   fvector, fbm25,
                   set_iteration_order(DOMAIN fnormalized.vector \cup DOMAIN fnormalized.bm25),
                   fargs.alpha)
          ELSE sort_results(_combine_results(
                   fnormalized.vector, fnormalized.bm25,
                   hybrid_weights(fargs.bm25_weight, fargs.vector_weight)))
    /\ fpc' = "cut"
    /\ UNCHANGED <<fimpl, fargs, fvector, fbm25, fnormalized,
                   ftop, freranker, freturned>>
    /\ UNCHANGED <<dbVars, queryVars, routerVars, entityVars, concVars, rerankVars, moreVars>>

\* backend: combined_results[:settings.TOP_K_RETRIEVAL], the retrieved chunks;
\* v3: combined_results[:top_k]
FusionCut ==
    /\ fpc = "cut"
    /\ ftop' = take(fcombined,
                           IF fimpl = "backend" THEN fargs.top_k ELSE v3_top_k(fargs))
    /\ IF fimpl = "backend"
       THEN fpc' = "returned" /\ freturned' = ftop'
       ELSE fpc' = "rerank" /\ freturned' = freturned
    /\ UNCHANGED <<fimpl, fargs, fvector, fbm25, fnormalized,
                   fcombined, freranker>>
    /\ UNCHANGED <<dbVars, queryVars, routerVars, entityVars, concVars, rerankVars, moreVars>>

\* v3: "if use_reranking and len(retrieval_results) > 1: rerank_results(...)"
FusionRerank ==
    /\ fpc = "rerank"
    /\ IF fargs.use_reranking /\ Len(ftop) > 1
       THEN /\ freranker' = <<ftop>>
            /\ freturned' = rerank_results(ftop, <<>>)
       ELSE /\ freranker' = <<>>
            /\ freturned' = ftop
    /\ fpc' = "returned"
    /\ UNCHANGED <<fimpl, fargs, fvector, fbm25, fnormalized,
                   fcombined, ftop>>
    /\ UNCHANGED <<dbVars, queryVars, routerVars, entityVars, concVars, rerankVars, moreVars>>


----------------------------------------------------------------------------
(* One call of Reranker.rerank on a list sorted by score, as retrieve      *)
(* hands it over                                                           *)

\* scores of the results: 0, 0.5 and 1.0, and -2.0 outside [0,1]
RerankScores == {-2 * HYBRID_ONE, 0, HYBRID_ONE \div 2, HYBRID_ONE}

RerankDocuments == {"A", "B"}

\* lists of up to MaxResults results with distinct chunks, sorted by score
\* descending
RerankInputs ==
    UNION {
        {[i \in 1..n |-> [chunk |-> [chunk_id |-> i, document_id |-> docs[i]],
                          score |-> scores[i]]] :
            docs \in [1..n -> RerankDocuments],
            scores \in {f \in [1..n -> RerankScores] :
                           \A i \in 1..(n - 1) : f[i] >= f[i + 1]}} :
        n \in 0..MaxResults}

\* top_k: None (settings.rerank_top_k applies) or a number of results
RerankTopKs == {<<>>, <<1>>, <<2>>, <<4>>}

\* reranker.rerank(query, results, top_k)
Rerank ==
    /\ kpc = "call"
    /\ kreranked' = rerank(kresults, ktop_k)
    /\ kpc' = "returned"
    /\ UNCHANGED <<kresults, ktop_k>>
    /\ UNCHANGED <<dbVars, queryVars, routerVars, entityVars, concVars, fusionVars, moreVars>>


IdleRouter ==
    /\ rpc = "off"
    /\ rquery = <<>>
    /\ rstate = initial_state(<<>>, <<>>)

IdleEntity ==
    /\ edoc = new_document("UPLOADED", "None")
    /\ eop = "none"
    /\ eraised = FALSE

\* page counts an extractor reports
Pages == {0, 3}
ErrorMessages == {"No text extracted from document", "extraction failed"}

\* a Document as the repository or a caller constructs it, in any status
InitEntity ==
    /\ IdleDb /\ IdleQuery /\ IdleRouter /\ IdleAux
    /\ \E status \in Statuses, message \in {"None", "Previous error"},
          n \in 0..MaxChunks, pages \in Pages, at \in 0..MaxClock :
          edoc = [new_document(status, message) EXCEPT
                     !.num_chunks = n, !.num_pages = pages, !.processed_at = at]
    /\ eop = "none"
    /\ eraised = FALSE

StartProcessing ==
    /\ edoc' = start_processing(edoc).doc
    /\ eraised' = start_processing(edoc).raised
    /\ eop' = "start_processing"
    /\ UNCHANGED <<dbVars, queryVars, routerVars, auxVars>>

MarkAsReady ==
    /\ \E n \in 0..MaxChunks, pages \in Pages, now \in 1..MaxClock :
          /\ edoc' = mark_as_ready(edoc, n, pages, now).doc
          /\ eraised' = mark_as_ready(edoc, n, pages, now).raised
    /\ eop' = "mark_as_ready"
    /\ UNCHANGED <<dbVars, queryVars, routerVars, auxVars>>

MarkAsFailed ==
    /\ \E message \in ErrorMessages :
          /\ edoc' = mark_as_failed(edoc, message).doc
          /\ eraised' = mark_as_failed(edoc, message).raised
    /\ eop' = "mark_as_failed"
    /\ UNCHANGED <<dbVars, queryVars, routerVars, auxVars>>

----------------------------------------------------------------------------
(* The router on every query of the vocabulary *)

InitRouter ==
    /\ IdleDb /\ IdleQuery /\ IdleEntity /\ IdleAux
    /\ rpc = "query"
    /\ rquery \in Queries
    /\ rstate = initial_state(rquery, <<>>)

\* _router_agent(state)
Route ==
    /\ rpc = "query"
    /\ rstate' = _router_agent(rstate)
    /\ rpc' = "routed"
    /\ UNCHANGED rquery
    /\ UNCHANGED <<dbVars, queryVars, entityVars, auxVars>>

----------------------------------------------------------------------------
(* The query workflow running against the documents being processed *)

Init == IdleDb /\ IdleQuery /\ IdleRouter /\ IdleEntity /\ IdleAux

Next ==
    \/ StartQuery
    \/ RouterNode
    \/ RetrieverNode
    \/ RetrieverSearch
    \/ ReasonerNode
    \/ UtilityNode
    \/ \E h \in Handlers, d \in Docs : Upload(h, d)
    \/ \E h \in Handlers, d \in Docs : Reprocess(h, d)
    \/ \E h \in Handlers : ReprocessReset(h)
    \/ \E h \in Handlers : ProcessStart(h)
    \/ \E h \in Handlers : ProcessExtract(h)
    \/ \E h \in Handlers : ProcessDeleteChunks(h)
    \/ \E h \in Handlers : ProcessCreateChunks(h)
    \/ \E h \in Handlers : ProcessReady(h)

Spec == Init /\ [][Next]_vars

NextEntity == StartProcessing \/ MarkAsReady \/ MarkAsFailed

SpecEntity == InitEntity /\ [][NextEntity]_vars

NextRouter == Route

SpecRouter == InitRouter /\ [][NextRouter]_vars

\* the corpus the concurrent calls run on: every document READY with one
\* chunk, or FAILED without any
InitConcurrent ==
    /\ IdleQuery /\ IdleRouter /\ IdleEntity
    /\ \E n \in [Docs -> {0, 1}] :
          /\ docStatus = [d \in Docs |-> IF n[d] = 0 THEN "FAILED" ELSE "READY"]
          /\ chunks = UNION {chunk_rows(d, n[d]) : d \in Docs}
    /\ hpc = [h \in Handlers |-> "idle"]
    /\ hdoc = [h \in Handlers |-> CHOOSE d \in Docs : TRUE]
    /\ hn = [h \in Handlers |-> 0]
    /\ cpc = [q \in Calls |-> "idle"]
    /\ cstate = [q \in Calls |-> initial_state(<<>>, <<>>)]
    /\ cresult = [q \in Calls |-> NoResult]
    /\ alone = [q \in Calls |-> [state |-> initial_state(<<>>, <<>>), result |-> NoResult]]
    /\ IdleFusion /\ IdleRerank /\ IdleMore

NextConcurrent ==
    \/ \E q \in Calls : CallStart(q)
    \/ \E q \in Calls : CallRouter(q)
    \/ \E q \in Calls : CallRetriever(q)
    \/ \E q \in Calls : CallReasoner(q)
    \/ \E q \in Calls : CallUtility(q)

SpecConcurrent == InitConcurrent /\ [][NextConcurrent]_vars

\* a retrieval is about to run, with any arguments and any raw scores
InitFusion ==
    /\ IdleDb /\ IdleQuery /\ IdleRouter /\ IdleEntity /\ IdleConcurrent /\ IdleRerank
    /\ IdleMore
    /\ fpc = "search"
    /\ \/ fimpl = "backend" /\ fargs \in BackendArgs
       \/ fimpl = "v3" /\ fargs \in V3Args
    /\ fvector = <<>>
    /\ fbm25 = <<>>
    /\ fnormalized = <<>>
    /\ fcombined = <<>>
    /\ ftop = <<>>
    /\ freranker = <<>>
    /\ freturned = <<>>

NextFusion ==
    \/ FusionSearch
    \/ FusionNormalize
    \/ FusionCombine
    \/ FusionCut
    \/ FusionRerank

SpecFusion == InitFusion /\ [][NextFusion]_vars

InitRerank ==
    /\ IdleDb /\ IdleQuery /\ IdleRouter /\ IdleEntity /\ IdleConcurrent /\ IdleFusion
    /\ IdleMore
    /\ kpc = "call"
    /\ kresults \in RerankInputs
    /\ ktop_k \in RerankTopKs
    /\ kreranked = <<>>

NextRerank == Rerank

SpecRerank == InitRerank /\ [][NextRerank]_vars

----------------------------------------------------------------------------
(* v3: the vector store and the BM25 index behind the requests of main.py  *)
(* (upload, delete, reset) and the scoped retrieval of /ask                *)

\* most chunks chunk_document makes of one uploaded file
MaxIndexChunks == 2

\* the files uploaded, by document id (generate_id of the file name)
IndexDocs == {"A", "B"}

\* generate_id(f"{document_id}_{chunk_index}", prefix="chunk_"): one id per
\* document and index
generate_id(document_id, chunk_index) ==
    (IF document_id = "A" THEN 0 ELSE 10) + chunk_index + 1

\* chunk_document(text, metadata): the chunks of a text that splits in n
chunk_document(document_id, n) ==
    [i \in 1..n |-> [chunk_id |-> generate_id(document_id, i - 1),
                     document_id |-> document_id]]

IndexChunkIds ==
    {generate_id(d, i) : d \in IndexDocs, i \in 0..(MaxIndexChunks - 1)}

\* DocumentIndexer.index_chunks: nothing for no chunks, else collection.add
indexer_index_chunks(collection, new_chunks) ==
    IF new_chunks = <<>> THEN collection ELSE collection \o new_chunks

\* BM25Retriever.index_chunks: nothing for no chunks, else "self.corpus =
\* chunks" and a BM25Okapi built on them
bm25_index_chunks(retriever, new_chunks) ==
    IF new_chunks = <<>> THEN retriever
    ELSE [corpus |-> new_chunks, bm25 |-> TRUE]

\* DocumentIndexer.delete_document: collection.delete of the chunks whose
\* metadata names the document
indexer_delete_document(collection, document_id) ==
    LET kept(c) == c.document_id # document_id
    IN  SelectSeq(collection, kept)

\* BM25Retriever.clear
bm25_clear == [corpus |-> <<>>, bm25 |-> FALSE]

\* DocumentIndexer.query, the where clause: "if document_id:
\* where_clause["document_id"] = document_id"
indexer_where(collection, document_id) ==
    LET inScope(c) == c.document_id = document_id[1]
    IN  IF document_id = <<>> THEN collection ELSE SelectSeq(collection, inScope)

\* BM25Retriever.retrieve(query, top_k): [] while self.bm25 is None
bm25_retriever_retrieve(retriever, scores, top_k) ==
    IF ~retriever.bm25 THEN <<>>
    ELSE bm25_retrieve(scores, retriever.corpus, top_k)

\* HybridRetriever.retrieve(query, document_id=document_id,
\* use_reranking=True) with the default top_k and weights, as
\* RetrieverAgent.execute calls it: the two candidate lists and the result
hybrid_retrieve(collection, retriever, document_id, similarity, scores) ==
    LET top_k == or_default(<<>>, settings_top_k_retrieval)
        vector_results ==
            vector_retrieve(similarity, indexer_where(collection, document_id),
                            top_k * 2)
        bm25_results == bm25_retriever_retrieve(retriever, scores, top_k * 2)
        combined_results ==
            sort_results(_combine_results(_normalize_scores(vector_results),
                                          _normalize_scores(bm25_results),
                                          hybrid_weights(<<>>, <<>>)))
        retrieval_results == take(combined_results, top_k)
    IN  [vector |-> vector_results,
         bm25 |-> bm25_results,
         returned |-> IF Len(retrieval_results) > 1
                      THEN rerank_results(retrieval_results, <<>>)
                      ELSE retrieval_results]

\* the response of a request that retrieves nothing
no_retrieval(request) ==
    [request |-> request, document_id |-> <<>>,
     vector |-> <<>>, bm25 |-> <<>>, returned |-> <<>>]

\* raw scores of a query, one per chunk: every chunk of a document scores
\* what the query's words score in that document
IndexScores ==
    {[c \in IndexChunkIds |-> IF c > 10 THEN f["B"] ELSE f["A"]] :
        f \in [IndexDocs -> {0, 1, 2}]}

\* POST /upload of a file not in the vector store: chunk_document, then
\* indexer.index_chunks, then bm25_retriever.index_chunks; when the
\* embedding call fails nothing is indexed and 500 is returned
UploadDocument(d, n, embedded) ==
    /\ \A i \in 1..Len(xindexer) : xindexer[i].document_id # d
    /\ IF embedded
       THEN /\ xindexer' = indexer_index_chunks(xindexer, chunk_document(d, n))
            /\ xbm25' = bm25_index_chunks(xbm25, chunk_document(d, n))
            /\ xresponse' = no_retrieval("upload")
       ELSE /\ UNCHANGED <<xindexer, xbm25>>
            /\ xresponse' = no_retrieval("upload failed")
    /\ UNCHANGED besideIndexVars

\* DELETE /documents/{document_id}: indexer.delete_document only
DeleteDocument(d) ==
    /\ xindexer' = indexer_delete_document(xindexer, d)
    /\ xresponse' = no_retrieval("delete")
    /\ UNCHANGED xbm25
    /\ UNCHANGED besideIndexVars

\* POST /reset: indexer.reset_collection and bm25_retriever.clear
ResetSystem ==
    /\ xindexer' = <<>>
    /\ xbm25' = bm25_clear
    /\ xresponse' = no_retrieval("reset")
    /\ UNCHANGED besideIndexVars

\* POST /ask with or without document_id: the retrieval of the retriever
\* agent
AskQuestion(document_id, similarity, scores) ==
    /\ xresponse' = [request |-> "ask", document_id |-> document_id] @@
                    hybrid_retrieve(xindexer, xbm25, document_id, similarity, scores)
    /\ UNCHANGED <<xindexer, xbm25>>
    /\ UNCHANGED besideIndexVars

InitIndex ==
    /\ IdleDb /\ IdleQuery /\ IdleRouter /\ IdleEntity
    /\ IdleConcurrent /\ IdleFusion /\ IdleRerank
    /\ IdleIndex
    /\ IdleSnippet
    /\ IdleChat
    /\ IdleProcess
    /\ IdleChunk

NextIndex ==
    \/ \E d \in IndexDocs, n \in 0..MaxIndexChunks, embedded \in BOOLEAN :
          UploadDocument(d, n, embedded)
    \/ \E d \in IndexDocs : DeleteDocument(d)
    \/ ResetSystem
    \/ \E document_id \in {<<>>} \cup {<<d>> : d \in IndexDocs},
          similarity \in IndexScores, scores \in IndexScores :
          AskQuestion(document_id, similarity, scores)

SpecIndex == InitIndex /\ [][NextIndex]_vars

----------------------------------------------------------------------------
(* The snippet of a citation: rag/services.py (_reasoning_agent) and the   *)
(* DocumentChunk entity (get_snippet)                                      *)

\* the 200 of chunk["text"][:200] and of get_snippet's max_length
SNIPPET_LENGTH == 200

ELLIPSIS == <<".", ".", ".">>

\* chunk texts, by length
SnippetTexts == {[i \in 1..n |-> "a"] : n \in 0..MaxTextLength}

\* _reasoning_agent: "snippet": chunk["text"][:200] + "..."
citation_snippet(text) == take(text, SNIPPET_LENGTH) \o ELLIPSIS

\* DocumentChunk.get_snippet(max_length)
get_snippet(text, max_length) ==
    IF Len(text) <= max_length THEN text
    ELSE take(text, max_length) \o ELLIPSIS

\* the citation of one retrieved chunk is built
CitationSnippet ==
    /\ npc = "call" /\ nimpl = "citation"
    /\ nsnippet' = citation_snippet(ntext)
    /\ npc' = "returned"
    /\ UNCHANGED <<nimpl, ntext>>
    /\ UNCHANGED besideSnippetVars

\* chunk.get_snippet() with the default max_length
GetSnippet ==
    /\ npc = "call" /\ nimpl = "get_snippet"
    /\ nsnippet' = get_snippet(ntext, SNIPPET_LENGTH)
    /\ npc' = "returned"
    /\ UNCHANGED <<nimpl, ntext>>
    /\ UNCHANGED besideSnippetVars

InitSnippet ==
    /\ IdleDb /\ IdleQuery /\ IdleRouter /\ IdleEntity
    /\ IdleConcurrent /\ IdleFusion /\ IdleRerank
    /\ IdleIndex
    /\ IdleChat
    /\ IdleProcess
    /\ IdleChunk
    /\ npc = "call"
    /\ nimpl \in {"citation", "get_snippet"}
    /\ ntext \in SnippetTexts
    /\ nsnippet = <<>>

NextSnippet == CitationSnippet \/ GetSnippet

SpecSnippet == InitSnippet /\ [][NextSnippet]_vars

----------------------------------------------------------------------------
(* AskQuestionUseCase.execute, run by the request threads on the sessions  *)
(* of the chat tables                                                      *)

\* the ChatSession rows
ChatSessions == {1}

\* session ids a request can name: 2 has no row
SessionIds == {1, 2}

\* get_recent_messages(dto.session_id, limit=10)
HISTORY_LIMIT == 10

\* exchanges the session holds before the calls: none, or five (ten messages)
PriorExchanges == {0, 5}

\* ChatSessionRepository.get_by_id finding a row for every id
get_by_id_found(session_id) == <<session_id>>

\* ChatSessionRepository.get_by_id: the session, or None
get_by_id(session_id) ==
    IF session_id \in ChatSessions THEN <<session_id>> ELSE <<>>

\* ChatMessage(session_id, role, content)
ChatMessage(session_id, role, content) ==
    [session_id |-> session_id, role |-> role, content |-> content]

\* ChatMessageRepository.create: model.save(), created_at = now
repository_create(table, message) == Append(table, message)

\* the last k elements of a list
last(s, k) == IF Len(s) <= k THEN s ELSE SubSeq(s, Len(s) - k + 1, Len(s))

\* DjangoChatMessageRepository.get_recent_messages: the limit newest
\* messages of the session, reversed into chronological order
get_recent_messages(table, session_id, limit) ==
    LET ofSession(m) == m.session_id = session_id
    IN  last(SelectSeq(table, ofSession), limit)

\* execute: the role/content dicts of recent_messages[:-1]
chat_history(recent_messages) ==
    [i \in 1..(Len(recent_messages) - 1) |->
        [role |-> recent_messages[i].role,
         content |-> recent_messages[i].content]]

\* the messages of earlier exchanges of session 1
RECURSIVE prior_messages(_)
prior_messages(n) ==
    IF n = 0 THEN <<>>
    ELSE prior_messages(n - 1)
         \o <<ChatMessage(1, "user", <<"earlier", n>>),
              ChatMessage(1, "assistant", <<"answer", "earlier", n>>)>>

\* whether a thread is inside execute on the session, past get_by_id
InProgress(w, session_id) ==
    /\ mpc[w] \in {"create_user", "history", "rag", "create_assistant"}
    /\ mdto[w].session_id = session_id

\* a request thread enters execute(dto)
AskStart(w, session_id) ==
    /\ mpc[w] = "idle"
    /\ mround[w] < MaxAsks
    /\ mround' = [mround EXCEPT ![w] = @ + 1]
    /\ mdto' = [mdto EXCEPT ![w] = [session_id |-> session_id,
                                    question |-> <<w, mround[w] + 1>>]]
    /\ mpc' = [mpc EXCEPT ![w] = "get_session"]
    /\ mhistory' = [mhistory EXCEPT ![w] = <<>>]
    /\ mresult' = [mresult EXCEPT ![w] = NoRagResult]
    /\ moutcome' = [moutcome EXCEPT ![w] = "none"]
    /\ UNCHANGED <<mtable, mcompleted, moverlap>>
    /\ UNCHANGED besideChatVars

\* session = get_by_id(...); "if not session: raise DocumentNotFoundError"
AskGetSession(w) ==
    /\ mpc[w] = "get_session"
    /\ IF get_by_id(mdto[w].session_id) = <<>>
       THEN /\ mpc' = [mpc EXCEPT ![w] = "idle"]
            /\ moutcome' = [moutcome EXCEPT ![w] = "raised"]
            /\ UNCHANGED moverlap
       ELSE /\ mpc' = [mpc EXCEPT ![w] = "create_user"]
            /\ UNCHANGED moutcome
            /\ moverlap' = (moverlap \/ \E v \in Workers \ {w} :
                                           InProgress(v, mdto[w].session_id))
    /\ UNCHANGED <<mdto, mtable, mhistory, mresult, mround, mcompleted>>
    /\ UNCHANGED besideChatVars

\* saved_user_message = self.chat_message_repository.create(user_message)
AskCreateUser(w) ==
    /\ mpc[w] = "create_user"
    /\ mtable' = repository_create(
                     mtable, ChatMessage(mdto[w].session_id, "user", mdto[w].question))
    /\ mpc' = [mpc EXCEPT ![w] = "history"]
    /\ UNCHANGED <<mdto, mhistory, mresult, moutcome, mround, mcompleted, moverlap>>
    /\ UNCHANGED besideChatVars

\* recent_messages = get_recent_messages(...); chat_history = [...]
AskHistory(w) ==
    /\ mpc[w] = "history"
    /\ mhistory' = [mhistory EXCEPT ![w] =
                       chat_history(get_recent_messages(
                           mtable, mdto[w].session_id, HISTORY_LIMIT))]
    /\ mpc' = [mpc EXCEPT ![w] = "rag"]
    /\ UNCHANGED <<mdto, mtable, mresult, moutcome, mround, mcompleted, moverlap>>
    /\ UNCHANGED besideChatVars

\* rag_result = self.rag_service.process_query(query, chat_history)
AskRag(w) ==
    /\ mpc[w] = "rag"
    /\ mresult' = [mresult EXCEPT ![w] = [answer |-> <<"answer">> \o mdto[w].question]]
    /\ mpc' = [mpc EXCEPT ![w] = "create_assistant"]
    /\ UNCHANGED <<mdto, mtable, mhistory, moutcome, mround, mcompleted, moverlap>>
    /\ UNCHANGED besideChatVars

\* saved_assistant_message = create(assistant_message); return the DTO
AskCreateAssistant(w) ==
    /\ mpc[w] = "create_assistant"
    /\ mtable' = repository_create(
                     mtable,
                     ChatMessage(mdto[w].session_id, "assistant", mresult[w].answer))
    /\ mpc' = [mpc EXCEPT ![w] = "idle"]
    /\ moutcome' = [moutcome EXCEPT ![w] = "returned"]
    /\ mcompleted' = mcompleted + 1
    /\ UNCHANGED <<mdto, mhistory, mresult, mround, moverlap>>
    /\ UNCHANGED besideChatVars

\* session 1 holds the messages of its earlier exchanges; no call runs
InitChat ==
    /\ IdleDb /\ IdleQuery /\ IdleRouter /\ IdleEntity
    /\ IdleConcurrent /\ IdleFusion /\ IdleRerank
    /\ IdleIndex /\ IdleSnippet /\ IdleProcess /\ IdleChunk
    /\ mpc = [w \in Workers |-> "idle"]
    /\ mdto = [w \in Workers |-> NoDto]
    /\ \E n \in PriorExchanges : mtable = prior_messages(n)
    /\ mhistory = [w \in Workers |-> <<>>]
    /\ mresult = [w \in Workers |-> NoRagResult]
    /\ moutcome = [w \in Workers |-> "none"]
    /\ mround = [w \in Workers |-> 0]
    /\ mcompleted = 0
    /\ moverlap = FALSE

NextChat ==
    \E w \in Workers :
        \/ \E session_id \in SessionIds : AskStart(w, session_id)
        \/ AskGetSession(w)
        \/ AskCreateUser(w)
        \/ AskHistory(w)
        \/ AskRag(w)
        \/ AskCreateAssistant(w)

SpecChat == InitChat /\ [][NextChat]_vars

----------------------------------------------------------------------------
(* ProcessDocumentUseCase.execute, run by the request threads on one       *)
(* document, one action per repository call                                *)

\* the chunk entities of a run starting their indexes at 1
chunk_entities_from_one(n, run) == {[index |-> i, run |-> run] : i \in 1..n}

\* execute: DocumentChunk(index=idx, ...) for idx, chunk_text in
\* enumerate(text_chunks); run tells the runs' chunks apart
chunk_entities(n, run) == {[index |-> i, run |-> run] : i \in 0..(n - 1)}

\* DjangoChunkRepository.delete_by_document on the rows of the document
delete_by_document(rows) == {}

\* whether bulk_create violates unique_together = ['document', 'index']
IntegrityError(rows, new_rows) ==
    \E c \in rows, e \in new_rows : c.index = e.index

\* DjangoChunkRepository.save_bulk
save_bulk(rows, new_rows) == rows \cup new_rows

\* whether a thread is inside execute, past the update that stores PROCESSING
Processing(w) == ppc[w] \in {"extract", "delete_chunks", "save_bulk", "mark_ready"}

\* the call ends: by return of a result DTO or by an exception
EndExecute(w, outcome) ==
    /\ ppc' = [ppc EXCEPT ![w] = "idle"]
    /\ poutcome' = [poutcome EXCEPT ![w] = outcome]

\* document = self.document_repository.get_by_id(document_id)
ExecuteGet(w) ==
    /\ ppc[w] = "idle"
    /\ pruns < MaxRuns
    /\ pruns' = pruns + 1
    /\ prun' = [prun EXCEPT ![w] = pruns + 1]
    /\ pentity' = [pentity EXCEPT ![w] = pdoc]
    /\ ppc' = [ppc EXCEPT ![w] = "start_processing"]
    /\ poutcome' = [poutcome EXCEPT ![w] = "none"]
    /\ pset' = [pset EXCEPT ![w] = FALSE]
    /\ ptouched' = [ptouched EXCEPT ![w] = FALSE]
    /\ pn' = [pn EXCEPT ![w] = 0]
    /\ poverlap' = (poverlap \/ \E v \in Workers \ {w} : ppc[v] # "idle")
    /\ UNCHANGED <<pdoc, pchunks>>
    /\ UNCHANGED besideProcessVars

\* document.start_processing(); self.document_repository.update(document):
\* InvalidDocumentStateError is not caught by execute
ExecuteStartProcessing(w) ==
    /\ ppc[w] = "start_processing"
    /\ LET started == start_processing(pentity[w])
       IN  IF started.raised
           THEN /\ EndExecute(w, "raised")
                /\ UNCHANGED <<pentity, pdoc, pset>>
           ELSE /\ pentity' = [pentity EXCEPT ![w] = started.doc]
                /\ pdoc' = started.doc
                /\ pset' = [pset EXCEPT ![w] = TRUE]
                /\ ppc' = [ppc EXCEPT ![w] = "extract"]
                /\ UNCHANGED poutcome
    /\ UNCHANGED <<pn, prun, ptouched, pchunks, pruns, poverlap>>
    /\ UNCHANGED besideProcessVars

\* _extract_text, _chunk_text and the embeddings of the chunks: no text, a
\* TextExtractionError or an EmbeddingGenerationError end the call with
\* mark_as_failed and update
ExecuteExtract(w) ==
    /\ ppc[w] = "extract"
    /\ \E outcome \in {"text", "no text", "extraction error", "embedding error"},
          n \in 1..MaxProcessChunks :
          IF outcome = "text"
          THEN /\ pn' = [pn EXCEPT ![w] = n]
               /\ ppc' = [ppc EXCEPT ![w] = "delete_chunks"]
               /\ UNCHANGED <<pentity, pdoc, poutcome>>
          ELSE /\ pentity' = [pentity EXCEPT ![w] = mark_as_failed(@, outcome).doc]
               /\ pdoc' = pentity'[w]
               /\ EndExecute(w, "failed")
               /\ UNCHANGED pn
    /\ UNCHANGED <<prun, pset, ptouched, pchunks, pruns, poverlap>>
    /\ UNCHANGED besideProcessVars

\* self.chunk_repository.delete_by_document(document_id); a database error
\* is not caught by execute
ExecuteDeleteChunks(w) ==
    /\ ppc[w] = "delete_chunks"
    /\ \E database_ok \in BOOLEAN :
          IF database_ok
          THEN /\ pchunks' = delete_by_document(pchunks)
               /\ ptouched' = [ptouched EXCEPT ![w] = TRUE]
               /\ ppc' = [ppc EXCEPT ![w] = "save_bulk"]
               /\ UNCHANGED poutcome
          ELSE /\ EndExecute(w, "raised")
               /\ UNCHANGED <<pchunks, ptouched>>
    /\ UNCHANGED <<pentity, pn, prun, pset, pdoc, pruns, poverlap>>
    /\ UNCHANGED besideProcessVars

\* self.chunk_repository.save_bulk(chunks); a database error or the
\* IntegrityError of a repeated index is not caught by execute
ExecuteSaveBulk(w) ==
    /\ ppc[w] = "save_bulk"
    /\ \E database_ok \in BOOLEAN :
          IF database_ok /\ ~IntegrityError(pchunks, chunk_entities(pn[w], prun[w]))
          THEN /\ pchunks' = save_bulk(pchunks, chunk_entities(pn[w], prun[w]))
               /\ ptouched' = [ptouched EXCEPT ![w] = TRUE]
               /\ ppc' = [ppc EXCEPT ![w] = "mark_ready"]
               /\ UNCHANGED poutcome
          ELSE /\ EndExecute(w, "raised")
               /\ UNCHANGED <<pchunks, ptouched>>
    /\ UNCHANGED <<pentity, pn, prun, pset, pdoc, pruns, poverlap>>
    /\ UNCHANGED besideProcessVars

\* document.mark_as_ready(num_chunks=len(chunks), num_pages=num_pages);
\* update(document); return the result DTO. datetime.now() is the run number
ExecuteMarkReady(w) ==
    /\ ppc[w] = "mark_ready"
    /\ pentity' = [pentity EXCEPT ![w] = mark_as_ready(@, pn[w], 1, prun[w]).doc]
    /\ pdoc' = pentity'[w]
    /\ EndExecute(w, "ok")
    /\ UNCHANGED <<pn, prun, pset, ptouched, pchunks, pruns, poverlap>>
    /\ UNCHANGED besideProcessVars

\* the document is UPLOADED, or FAILED by an earlier run (run 0) that may
\* have left chunks behind
InitProcess ==
    /\ IdleDb /\ IdleQuery /\ IdleRouter /\ IdleEntity
    /\ IdleConcurrent /\ IdleFusion /\ IdleRerank
    /\ IdleIndex /\ IdleSnippet /\ IdleChat /\ IdleChunk
    /\ ppc = [w \in Workers |-> "idle"]
    /\ pentity = [w \in Workers |-> new_document("UPLOADED", "None")]
    /\ pn = [w \in Workers |-> 0]
    /\ prun = [w \in Workers |-> 0]
    /\ poutcome = [w \in Workers |-> "none"]
    /\ pset = [w \in Workers |-> FALSE]
    /\ ptouched = [w \in Workers |-> FALSE]
    /\ \E n \in 0..MaxProcessChunks, failed \in BOOLEAN :
          /\ ~failed => n = 0
          /\ pdoc = IF failed THEN new_document("FAILED", "embedding error")
                    ELSE new_document("UPLOADED", "None")
          /\ pchunks = chunk_entities(n, 0)
    /\ pruns = 0
    /\ poverlap = FALSE

NextProcess ==
    \E w \in Workers :
        \/ ExecuteGet(w)
        \/ ExecuteStartProcessing(w)
        \/ ExecuteExtract(w)
        \/ ExecuteDeleteChunks(w)
        \/ ExecuteSaveBulk(w)
        \/ ExecuteMarkReady(w)

SpecProcess == InitProcess /\ [][NextProcess]_vars

----------------------------------------------------------------------------
(* Chunking: ProcessDocumentUseCase._chunk_text and v3 DocumentChunker     *)

\* defaults of ProcessDocumentUseCase.__init__
DEFAULT_CHUNK_SIZE == 800
DEFAULT_CHUNK_OVERLAP == 200

\* v3 settings.chunk_size, settings.chunk_overlap
settings_chunk_size == 1000
settings_chunk_overlap == 200

\* explicit chunk_size and chunk_overlap values
ChunkNumbers == -1..3

\* ProcessDocumentUseCase(chunk_size, chunk_overlap)
UseCaseChunkArgs ==
    [chunk_size : ChunkNumbers \cup {DEFAULT_CHUNK_SIZE},
     chunk_overlap : ChunkNumbers \cup {DEFAULT_CHUNK_OVERLAP}]

\* DocumentChunker(chunk_size, chunk_overlap): None or a number each
V3ChunkArgs ==
    [chunk_size : {<<>>} \cup {<<k>> : k \in ChunkNumbers},
     chunk_overlap : {<<>>} \cup {<<k>> : k \in ChunkNumbers}]

\* DocumentChunker.__init__: "if self.chunk_overlap >= self.chunk_size:
\* raise ValueError"
chunker_rejects(chunk_size, chunk_overlap) == chunk_overlap >= chunk_size

\* min(a, b)
min(a, b) == IF a < b THEN a ELSE b

\* __init__ of the chunking component
ChunkConstruct ==
    /\ zpc = "construct"
    /\ IF zimpl = "use_case"
       THEN /\ zsize' = zargs.chunk_size
            /\ zoverlap' = zargs.chunk_overlap
            /\ zpc' = "call"
       ELSE /\ zsize' = or_default(zargs.chunk_size, settings_chunk_size)
            /\ zoverlap' = or_default(zargs.chunk_overlap, settings_chunk_overlap)
            /\ zpc' = IF chunker_rejects(zsize', zoverlap') THEN "rejected" ELSE "call"
    /\ UNCHANGED <<zimpl, zargs, zlen, zstart, zchunks, ziterations>>
    /\ UNCHANGED besideChunkVars

\* _chunk_text(text) up to its loop; v3 chunk_text(text, metadata) up to its
\* loop: [] for an empty text
ChunkCall ==
    /\ zpc = "call"
    /\ zstart' = 0
    /\ zchunks' = 0
    /\ zpc' = IF zimpl = "v3" /\ zlen = 0 THEN "returned" ELSE "loop"
    /\ UNCHANGED <<zimpl, zargs, zsize, zoverlap, zlen, ziterations>>
    /\ UNCHANGED besideChunkVars

\* one test of the while condition and, when it holds, one iteration:
\* use case: chunks.append(text[start:end]); start += chunk_size -
\* chunk_overlap; v3: end_idx = min(start_idx + chunk_size, len(tokens)),
\* append, break at the end of the tokens, start_idx = end_idx - chunk_overlap
ChunkLoop ==
    /\ zpc = "loop"
    /\ ziterations < MaxIterations
    /\ IF zstart < zlen
       THEN /\ zchunks' = zchunks + 1
            /\ ziterations' = ziterations + 1
            /\ IF zimpl = "use_case"
               THEN /\ zstart' = zstart + (zsize - zoverlap)
                    /\ zpc' = "loop"
               ELSE LET end_idx == min(zstart + zsize, zlen)
                    IN  IF end_idx >= zlen
                        THEN zpc' = "returned" /\ zstart' = zstart
                        ELSE zpc' = "loop" /\ zstart' = end_idx - zoverlap
       ELSE /\ zpc' = "returned"
            /\ zchunks' = IF zimpl = "use_case" /\ zchunks = 0 THEN 1 ELSE zchunks
            /\ UNCHANGED <<zstart, ziterations>>
    /\ UNCHANGED <<zimpl, zargs, zsize, zoverlap, zlen>>
    /\ UNCHANGED besideChunkVars

\* a chunking component is about to be constructed and given a text
InitChunk ==
    /\ IdleDb /\ IdleQuery /\ IdleRouter /\ IdleEntity
    /\ IdleConcurrent /\ IdleFusion /\ IdleRerank
    /\ IdleIndex /\ IdleSnippet /\ IdleChat /\ IdleProcess
    /\ zpc = "construct"
    /\ \/ zimpl = "use_case" /\ zargs \in UseCaseChunkArgs
       \/ zimpl = "v3" /\ zargs \in V3ChunkArgs
    /\ zsize = 0
    /\ zoverlap = 0
    /\ zlen \in 0..MaxChunkText
    /\ zstart = 0
    /\ zchunks = 0
    /\ ziterations = 0

NextChunk == ChunkConstruct \/ ChunkCall \/ ChunkLoop

SpecChunk == InitChunk /\ [][NextChunk]_vars

----------------------------------------------------------------------------
(* Properties of the query workflow (specification Spec) *)

RAG_BRANCH == <<"router", "retriever", "reasoner">>
UTILITY_BRANCH == <<"router", "utility">>
UTILITY_INTENTS == {"SUMMARIZE", "TRANSLATE", "CHECKLIST"}
RESULT_FIELDS == {"answer", "citations", "metadata", "error"}

IsPrefix(s, t) == Len(s) <= Len(t) /\ \A i \in 1..Len(s) : s[i] = t[i]

\* C1: every run executes the router first and then exactly one branch chosen
\* by the intent the router wrote: RAG_QUERY runs retriever then reasoner, the
\* other three intents run only the utility node; no run ends right after the
\* router and no run mixes nodes of both branches.
C1_RouterThenOneBranch ==
    /\ IsPrefix(trace, RAG_BRANCH) \/ IsPrefix(trace, UTILITY_BRANCH)
    /\ Len(trace) >= 2 =>
          /\ state.intent = "RAG_QUERY" => IsPrefix(trace, RAG_BRANCH)
          /\ state.intent \in UTILITY_INTENTS => IsPrefix(trace, UTILITY_BRANCH)
    /\ qpc = "done" =>
          \/ state.intent = "RAG_QUERY" /\ trace = RAG_BRANCH
          \/ state.intent \in UTILITY_INTENTS /\ trace = UTILITY_BRANCH

C1_Witness ==
    qpc = "done" /\ state.intent = "CHECKLIST" /\ trace = UTILITY_BRANCH

\* C2: process_query always hands its caller a result with the four fields
\* answer, citations, metadata, error; when a node raised, error is non-empty
\* and citations is empty.
C2_NoExceptionEscapes ==
    qpc = "done" =>
        /\ DOMAIN result = RESULT_FIELDS
        /\ raisedIn # "" => result.error # "" /\ result.citations = <<>>

C2_Witness ==
    qpc = "done" /\ raisedIn = "reasoner" /\ DOMAIN result = RESULT_FIELDS

\* C3: an error does not stop the workflow: a retriever that finds no chunk of
\* a READY document sets error and an empty retrieved list and hands over to
\* the reasoner; the reasoner entered with that state returns the fallback
\* answer, no citations, and the error still set.
C3_ErrorDoesNotStop ==
    [][ /\ ( /\ qpc = "retriever" /\ qpc' # "retriever"
             /\ ~(\E c \in chunks : docStatus[c.doc] = "READY") )
           => ( /\ state'.error # ""
                /\ state'.retrieved_chunks = <<>>
                /\ qpc' = "reasoner" )
        /\ ( /\ qpc = "reasoner" /\ qpc' # "reasoner"
             /\ state.error # "" /\ state.retrieved_chunks = <<>> )
           => ( /\ qpc' = "done"
                /\ trace' = RAG_BRANCH
                /\ result'.answer = FALLBACK_ANSWER
                /\ result'.citations = <<>>
                /\ result'.error = state.error )
      ]_vars

C3_Witness ==
    /\ qpc = "done" /\ trace = RAG_BRANCH
    /\ result.error = NO_DOCUMENTS
    /\ result.answer = FALLBACK_ANSWER

SameChunk(citation, chunk) ==
    /\ citation.document_id = chunk.document_id
    /\ citation.chunk_index = chunk.chunk_index

\* C4: every citation of a result refers to a chunk of the retrieved list the
\* reasoner was given; after a successful generation there is exactly one
\* citation per retrieved chunk, in the same order.
C4_CitationsGrounded ==
    (qpc = "done" /\ DOMAIN result = RESULT_FIELDS) =>
        /\ \A i \in 1..Len(result.citations) :
              \E j \in 1..Len(state.retrieved_chunks) :
                  SameChunk(result.citations[i], state.retrieved_chunks[j])
        /\ (trace = RAG_BRANCH /\ llmOutcome = "ok") =>
              /\ Len(result.citations) = Len(state.retrieved_chunks)
              /\ \A i \in 1..Len(result.citations) :
                    SameChunk(result.citations[i], state.retrieved_chunks[i])

C4_Witness ==
    /\ qpc = "done" /\ llmOutcome = "ok"
    /\ Len(result.citations) = 2
    /\ result.citations[1].document_id > result.citations[2].document_id

\* C5: every retrieved chunk, and so every citation, is a chunk row of a
\* document that was READY in the database the retriever read, also when
\* another document was UPLOADED, PROCESSING or FAILED at that moment.
C5_OnlyReadyChunks ==
    /\ \A i \in 1..Len(state.retrieved_chunks) :
          /\ corpus.status[state.retrieved_chunks[i].document_id] = "READY"
          /\ state.retrieved_chunks[i].chunk_id \in corpus.rows
    /\ DOMAIN result = RESULT_FIELDS =>
          \A i \in 1..Len(result.citations) :
              corpus.status[result.citations[i].document_id] = "READY"

C5_Witness ==
    /\ state.retrieved_chunks # <<>>
    /\ \E c \in corpus.rows : corpus.status[c.doc] = "PROCESSING"

\* C6: a document's status changes only along UPLOADED->PROCESSING,
\* PROCESSING->READY, PROCESSING->FAILED and FAILED->PROCESSING.
C6_StatusEdges ==
    [][ \A d \in Docs :
          (docStatus[d] \in Statuses /\ docStatus'[d] # docStatus[d]) =>
              <<docStatus[d], docStatus'[d]>> \in
                  {<<"UPLOADED", "PROCESSING">>, <<"PROCESSING", "READY">>,
                   <<"PROCESSING", "FAILED">>, <<"FAILED", "PROCESSING">>}
      ]_vars

\* C9: a reasoner entered with an empty retrieved list returns the fallback
\* answer and no citations, and the generative model is not invoked during
\* that query.
C9_EmptyRetrievalNoModelCall ==
    (qpc = "done" /\ trace = RAG_BRANCH /\ state.retrieved_chunks = <<>>) =>
        /\ result.answer = FALLBACK_ANSWER
        /\ result.citations = <<>>
        /\ llmCalls = 0

C9_Witness ==
    /\ qpc = "done" /\ trace = RAG_BRANCH /\ state.retrieved_chunks = <<>>
    /\ state.chat_history # <<>>
    /\ llmCalls = 0

\* C10: when the model invocation of the reasoner fails, the query still
\* returns a result: the apology as answer, no citations, a non-empty error,
\* and no exception.
C10_GenerationFailureIsAnswered ==
    (qpc = "done" /\ trace = RAG_BRANCH /\ llmOutcome = "fail") =>
        /\ DOMAIN result = RESULT_FIELDS
        /\ result.answer = REASONING_APOLOGY
        /\ result.citations = <<>>
        /\ result.error # ""
        /\ raisedIn = ""

C10_Witness ==
    /\ qpc = "done" /\ trace = RAG_BRANCH /\ llmOutcome = "fail"
    /\ state.retrieved_chunks # <<>>
    /\ result.answer = REASONING_APOLOGY

----------------------------------------------------------------------------
(* Properties of the Document entity (specification SpecEntity) *)

Target(op) ==
    CASE op = "start_processing" -> "PROCESSING"
      [] op = "mark_as_ready" -> "READY"
      [] op = "mark_as_failed" -> "FAILED"

\* C7: start_processing, mark_as_ready or mark_as_failed called in a status
\* that does not allow the target raises InvalidDocumentStateError and changes
\* no field; no call changes a READY document; READY is reached only from
\* PROCESSING.
C7_InvalidTransitionRejected ==
    [][ /\ ~can_transition_to(edoc.status, Target(eop')) =>
              (eraised' /\ edoc' = edoc)
        /\ edoc.status = "READY" => (eraised' /\ edoc' = edoc)
        /\ (edoc'.status = "READY" /\ edoc.status # "READY") =>
              edoc.status = "PROCESSING"
      ]_vars

C7_Witness ==
    /\ eop = "start_processing" /\ eraised
    /\ edoc.status = "READY" /\ edoc.processed_at > 0

----------------------------------------------------------------------------
(* Properties of the router (specification SpecRouter) *)

PRIORITY == <<"SUMMARIZE", "TRANSLATE", "CHECKLIST">>
TRIGGERS == <<SUMMARIZE_KEYWORDS, TRANSLATE_KEYWORDS, CHECKLIST_KEYWORDS>>

\* the categories with a trigger occurring in the lower-cased query
Triggered(query) ==
    {i \in 1..3 : \E j \in 1..Len(TRIGGERS[i]) : contains(lower(query), TRIGGERS[i][j])}

\* C8: the intent is the earliest category, in the order SUMMARIZE, TRANSLATE,
\* CHECKLIST, with a trigger occurring in the lower-cased query, and RAG_QUERY
\* when no trigger occurs.
C8_EarliestCategoryWins ==
    rpc = "routed" =>
        /\ rstate.intent =
              IF Triggered(rquery) = {} THEN "RAG_QUERY"
              ELSE PRIORITY[Min(Triggered(rquery))]
        /\ rstate.metadata["intent"] = rstate.intent

C8_Witness ==
    /\ rpc = "routed"
    /\ Triggered(rquery) = {1, 3}
    /\ rquery # lower(rquery)
    /\ rstate.intent = "SUMMARIZE"

----------------------------------------------------------------------------
(* Properties of the utility branch (specification Spec) *)

\* C11: a query routed to the utility branch never reaches the retriever: the
\* retriever node is not run (no query embedding, no read of the chunk
\* corpus), retrieved_chunks stays empty, and the result has no citations,
\* whether the model call of the utility node succeeds or fails.
C11_UtilitySkipsRetrieval ==
    state.intent \in UTILITY_INTENTS =>
        /\ "retriever" \notin Range(trace)
        /\ qpc \notin {"retriever", "retriever_search", "reasoner"}
        /\ corpus = NoCorpus
        /\ state.retrieved_chunks = <<>>
        /\ qpc = "done" =>
              /\ llmOutcome \in {"ok", "fail"}
              /\ result.citations = <<>>

C11_Witness ==
    /\ qpc = "done" /\ state.intent = "SUMMARIZE" /\ trace = UTILITY_BRANCH
    /\ llmOutcome = "ok" /\ result.citations = <<>>
    /\ \E c \in chunks : docStatus[c.doc] = "READY"

\* the step of the utility node in which the model call fails
UtilityModelFails ==
    qpc = "utility" /\ qpc' = "done" /\ llmOutcome' = "fail"

\* C12 as stated: when the model call of the utility node fails the node does
\* not raise, sets the generic error answer, and records the failure in
\* metadata.
C12_FailureRecordedInMetadata ==
    [][ UtilityModelFails =>
          /\ raisedIn' = ""
          /\ state'.answer = UTILITY_APOLOGY
          /\ state'.metadata # state.metadata
      ]_vars

\* C12 amended: when the model call of the utility node fails the node does
\* not raise, sets the generic error answer, and records the failure in the
\* error field of the state; metadata is left as the router wrote it.
C12_FailureRecordedInError ==
    [][ UtilityModelFails =>
          /\ raisedIn' = ""
          /\ state'.answer = UTILITY_APOLOGY
          /\ \E reply \in LlmReplies :
                ~reply.ok /\ state'.error = "Utility agent error: " \o reply.text
          /\ state'.metadata = state.metadata
          /\ result' = query_result(state')
      ]_vars

C12_Witness ==
    /\ qpc = "done" /\ trace = UTILITY_BRANCH /\ llmOutcome = "fail"
    /\ result.answer = UTILITY_APOLOGY
    /\ result.error = "Utility agent error: API Error"
    /\ DOMAIN result.metadata = {"intent"}

\* C29: in the result of every process_query call, a non-empty citations
\* list implies that error is empty and that the routed intent was RAG_QUERY:
\* whenever error is non-empty or the utility branch ran, citations is empty
C29_CitationsOnlyFromCleanRagRun ==
    qpc = "done" =>
        /\ result.citations # <<>> =>
              /\ result.error = ""
              /\ state.intent = "RAG_QUERY"
              /\ trace = RAG_BRANCH
        /\ result.error # "" \/ "utility" \in Range(trace) =>
              result.citations = <<>>

C29_Witness ==
    /\ qpc = "done"
    /\ Len(result.citations) = TOP_K_RETRIEVAL
    /\ result.error = ""
    /\ state.intent = "RAG_QUERY"
    /\ llmOutcome = "ok"

----------------------------------------------------------------------------
(* Properties of concurrent queries (specification SpecConcurrent) *)

\* C13: no step of a query changes what the queries share (the chunk corpus
\* and the documents' statuses), and however the nodes of the concurrent
\* process_query calls interleave, every call that has returned has returned
\* the result the same call gives when it runs alone on the same corpus with
\* the same outcomes of its embedding, search and model calls.
C13_ConcurrentQueriesIndependent ==
    [][ /\ docStatus' = docStatus
        /\ chunks' = chunks
        /\ \A q \in Calls : cpc'[q] = "done" => cresult'[q] = alone'[q].result
      ]_vars

C13_Witness ==
    /\ cpc["q1"] = "done" /\ cpc["q2"] = "reasoner"
    /\ cstate["q1"].intent = "SUMMARIZE" /\ cstate["q2"].intent = "RAG_QUERY"
    /\ cstate["q2"].retrieved_chunks # <<>>
    /\ cresult["q1"] = alone["q1"].result
    /\ cresult["q1"].error = ""

----------------------------------------------------------------------------
(* Properties of score normalization and fusion (specification SpecFusion) *)

\* a candidate list or fused list as a sequence of [id, score], whichever
\* implementation produced it
Entries(results) ==
    IF fimpl = "backend"
    THEN [i \in 1..Len(results) |-> [id |-> results[i][1], score |-> results[i][2]]]
    ELSE [i \in 1..Len(results) |->
            [id |-> results[i].chunk.chunk_id, score |-> results[i].score]]

Ids(results) == {Entries(results)[i].id : i \in 1..Len(results)}

\* the normalized scores of a list, by chunk id
NormalizedScores(list) ==
    IF fimpl = "backend" THEN list
    ELSE [c \in {list[i].chunk.chunk_id : i \in 1..Len(list)} |->
            list[CHOOSE i \in 1..Len(list) : list[i].chunk.chunk_id = c].normalized_score]

Normalized == fpc \in {"combine", "cut", "rerank", "returned"}
Fused == fpc \in {"cut", "rerank", "returned"}

\* what normalization does to one non-empty candidate list
InUnitRange(raw, norm) ==
    raw # <<>> =>
        /\ DOMAIN norm = Ids(raw)
        /\ \A c \in DOMAIN norm : 0 <= norm[c] /\ norm[c] <= ONE
        /\ Cardinality({Entries(raw)[i].score : i \in 1..Len(raw)}) = 1
              => \A c \in DOMAIN norm : norm[c] = ONE

\* C15: min-max normalization of a non-empty candidate list gives every
\* candidate a score in [0,1]; when all raw scores of the list are equal (a
\* single candidate included) every normalized score is exactly 1.0, and the
\* division by max - min is never a division by zero.
C15_NormalizationRange ==
    Normalized =>
        /\ InUnitRange(fvector, NormalizedScores(fnormalized.vector))
        /\ InUnitRange(fbm25, NormalizedScores(fnormalized.bm25))

C15_Witness ==
    /\ fimpl = "v3" /\ Normalized
    /\ Len(fbm25) = 1
    /\ NormalizedScores(fnormalized.bm25)[fbm25[1].chunk.chunk_id] = ONE
    /\ Len(fvector) = 3
    /\ \E c \in Ids(fvector) :
          /\ 0 < NormalizedScores(fnormalized.vector)[c]
          /\ NormalizedScores(fnormalized.vector)[c] < ONE

\* the weight of the semantic score the caller configured, in tenths
SemanticWeight ==
    IF fimpl = "backend" THEN fargs.alpha
    ELSE IF fargs.vector_weight = <<>> THEN settings_vector_weight
    ELSE fargs.vector_weight[1]

\* C14: fusion gives every chunk id of the union of the two candidate lists
\* the score weight * semanticNorm + (1 - weight) * lexicalNorm, with 0 for
\* the list the chunk is missing from, and so every fused score lies in
\* [0,1], for every weight in [0,1].
C14_FusedIsWeightedSum ==
    Fused =>
        LET semantic == NormalizedScores(fnormalized.vector)
            lexical == NormalizedScores(fnormalized.bm25)
            fused == Entries(fcombined)
        IN  /\ Ids(fcombined) = Ids(fvector) \cup Ids(fbm25)
            /\ \A i \in 1..Len(fused) :
                  /\ fused[i].score =
                        SemanticWeight * Get(semantic, fused[i].id, 0)
                        + (10 - SemanticWeight) * Get(lexical, fused[i].id, 0)
                  /\ 0 <= fused[i].score /\ fused[i].score <= HYBRID_ONE

\* the fused list is sorted by fused score, highest first
SortedDescending(fused) ==
    \A i, j \in 1..Len(fused) : i < j => fused[i].score >= fused[j].score

\* the order in which fusion goes through the chunk ids: backend iterates the
\* set of ids, v3 the semantic candidates and then the lexical candidates not
\* among them
FusionOrder ==
    IF fimpl = "backend" THEN set_iteration_order(Ids(fvector) \cup Ids(fbm25))
    ELSE LET semantic == Entries(fvector)
             lexical == Entries(fbm25)
             new(e) == e.id \notin Ids(fvector)
             both == semantic \o SelectSeq(lexical, new)
         IN  [i \in 1..Len(both) |-> both[i].id]

PositionIn(order, c) == CHOOSE k \in 1..Len(order) : order[k] = c

\* C16 as stated: the fused list is sorted by fused score descending, and
\* chunks with equal fused score are ordered by chunk id.
C16_TiesByChunkId ==
    Fused =>
        LET fused == Entries(fcombined)
        IN  /\ SortedDescending(fused)
            /\ \A i, j \in 1..Len(fused) :
                  i < j /\ fused[i].score = fused[j].score => fused[i].id < fused[j].id

\* C16 amended: the fused list is sorted by fused score descending, and
\* chunks with equal fused score keep the order in which fusion went through
\* the chunk ids, an order fixed by the two candidate lists.
C16_TiesByFusionOrder ==
    Fused =>
        LET fused == Entries(fcombined)
        IN  /\ SortedDescending(fused)
            /\ \A i, j \in 1..Len(fused) :
                  i < j /\ fused[i].score = fused[j].score
                     => PositionIn(FusionOrder, fused[i].id) < PositionIn(FusionOrder, fused[j].id)

C16_Witness ==
    /\ fimpl = "v3" /\ Fused /\ Len(fcombined) = 3
    /\ fcombined[1].score = fcombined[2].score
    /\ fcombined[1].chunk.chunk_id > fcombined[2].chunk.chunk_id
    /\ fcombined[2].score > fcombined[3].score

\* fusion's output holds exactly one entry for every chunk id of either list
OneEntryPerChunk ==
    /\ Ids(fcombined) = Ids(fvector) \cup Ids(fbm25)
    /\ Len(fcombined) = Cardinality(Ids(fcombined))

\* the size the retrieval cuts the fused list to
CutSize == IF fimpl = "backend" THEN fargs.top_k ELSE v3_top_k(fargs)

\* C17 as stated: fusion does not truncate, its output holds exactly one
\* entry for every chunk id of either candidate list; the cut to K results
\* happens only after reranking, so the reranker receives the full fused list.
C17_RerankerGetsFullFusedList ==
    /\ Fused => OneEntryPerChunk
    /\ fpc = "returned" /\ freranker # <<>> => freranker[1] = fcombined

\* C17 amended: fusion does not truncate, its output holds exactly one entry
\* for every chunk id of either candidate list; the sorted fused list is cut
\* to top_k before the reranker is called, so the reranker receives the first
\* top_k fused results at most (the backend has no reranker and returns the
\* first top_k fused results).
C17_CutBeforeReranking ==
    /\ Fused => OneEntryPerChunk
    /\ fpc = "returned" =>
          /\ freranker # <<>> =>
                /\ IsPrefix(freranker[1], fcombined)
                /\ Len(freranker[1]) <= CutSize
                /\ Len(fcombined) >= CutSize => Len(freranker[1]) = CutSize
          /\ fimpl = "backend" =>
                /\ freranker = <<>>
                /\ IsPrefix(freturned, fcombined)
                /\ Len(freturned) = IF Len(fcombined) < CutSize THEN Len(fcombined) ELSE CutSize

C17_Witness ==
    /\ fimpl = "v3" /\ fpc = "returned" /\ freranker # <<>>
    /\ Len(fcombined) = 3 /\ Len(freranker[1]) = 2
    /\ Len(fvector) = 3 /\ Len(fbm25) = 1

Searched == fpc \in {"normalize", "combine", "cut", "rerank", "returned"}

\* C18 as stated: each of the two candidate lists handed to fusion holds at
\* most 2*K entries, K being the size the result is cut to.
C18_ListsCappedAtTwiceK ==
    Searched => Len(fvector) <= 2 * CutSize /\ Len(fbm25) <= 2 * CutSize

\* C18 amended: in HybridRetriever.retrieve each of the two candidate lists
\* handed to fusion holds at most 2*top_k entries; in the backend's
\* _retriever_agent the lists are not capped, each holds one entry for every
\* chunk of a READY document.
C18_ListsCappedInV3Only ==
    Searched =>
        /\ fimpl = "v3" => Len(fvector) <= 2 * CutSize /\ Len(fbm25) <= 2 * CutSize
        /\ fimpl = "backend" =>
              /\ Ids(fvector) = FusionChunkIds /\ Len(fvector) = Len(FusionChunks)
              /\ Ids(fbm25) = FusionChunkIds /\ Len(fbm25) = Len(FusionChunks)

C18_Witness ==
    /\ Searched /\ fimpl = "v3" /\ CutSize = 1
    /\ Len(fvector) = 2 /\ Len(fbm25) = 2
    /\ Len(FusionChunks) > 2

----------------------------------------------------------------------------
(* Properties of the reranker (specification SpecRerank) *)

\* the K of a call: top_k, or settings.rerank_top_k when none is given
RerankK == IF ktop_k = <<>> THEN settings_rerank_top_k ELSE ktop_k[1]

ScoresInUnitRange(results) ==
    \A i \in 1..Len(results) : 0 <= results[i].score /\ results[i].score <= HYBRID_ONE

SameDocument(c, selected) ==
    Cardinality({i \in 1..Len(selected) :
                    selected[i].chunk.document_id = c.chunk.document_id})

\* 0.7*score + 0.3/(1 + same) of candidate a is greater than, or equal to,
\* that of candidate b, compared without division
Exceeds(a, b, selected) ==
    LET na == 1 + SameDocument(a, selected)
        nb == 1 + SameDocument(b, selected)
    IN  7 * a.score * na * nb + 3 * HYBRID_ONE * nb
        > 7 * b.score * na * nb + 3 * HYBRID_ONE * na

Equals(a, b, selected) ==
    LET na == 1 + SameDocument(a, selected)
        nb == 1 + SameDocument(b, selected)
    IN  7 * a.score * na * nb + 3 * HYBRID_ONE * nb
        = 7 * b.score * na * nb + 3 * HYBRID_ONE * na

\* position of a result in the input (chunk ids are distinct)
InputPosition(r) == CHOOSE i \in 1..Len(kresults) : kresults[i] = r

\* the scenario of six results, the top four from one document and the
\* bottom two from another, K = 4
SixResultsTwoDocuments ==
    /\ Len(kresults) = 6 /\ ktop_k = <<4>>
    /\ \A i \in 1..4 : kresults[i].chunk.document_id = "A"
    /\ \A i \in 5..6 : kresults[i].chunk.document_id = "B"

\* C20: on an input of more than K results (sorted by score descending) the
\* reranker selects the first, highest-score result first; every later
\* selection is, among the results not selected before it, one with the
\* highest 0.7*score + 0.3/(1 + number of results already selected from the
\* same document), the earliest in input order among equals.  With six
\* results, four of document A above two of document B, and K = 4, a result
\* of B is selected whenever at some selection its combined score exceeds
\* that of every A result still unselected (scores between 0 and 1, as the
\* fusion produces them).
C20_GreedyDiversitySelection ==
    kpc = "returned" /\ Len(kresults) > RerankK =>
        /\ kreranked[1] = kresults[1]
        /\ \A p \in 2..Len(kreranked) :
              LET selected == SubSeq(kreranked, 1, p - 1)
                  candidates == Range(kresults) \ Range(selected)
              IN  /\ kreranked[p] \in candidates
                  /\ \A c \in candidates :
                        \/ Exceeds(kreranked[p], c, selected)
                        \/ /\ Equals(kreranked[p], c, selected)
                           /\ InputPosition(kreranked[p]) <= InputPosition(c)
        /\ SixResultsTwoDocuments /\ ScoresInUnitRange(kresults) =>
              \A p \in 2..4 :
                 LET selected == SubSeq(kreranked, 1, p - 1)
                     candidates == Range(kresults) \ Range(selected)
                 IN  ( /\ Len(kreranked) >= p - 1
                       /\ \A j \in 1..(p - 1) : kreranked[j].chunk.document_id = "A"
                       /\ \E b \in candidates :
                             /\ b.chunk.document_id = "B"
                             /\ \A a \in candidates :
                                   a.chunk.document_id = "A" => Exceeds(b, a, selected) )
                     => /\ Len(kreranked) >= p
                        /\ kreranked[p].chunk.document_id = "B"

C20_Witness ==
    /\ kpc = "returned" /\ SixResultsTwoDocuments /\ ScoresInUnitRange(kresults)
    /\ kresults[2].score > kresults[5].score
    /\ kreranked[1].chunk.document_id = "A"
    /\ kreranked[2].chunk.document_id = "A"
    /\ kreranked[3].chunk.document_id = "B"
    /\ kreranked[4].chunk.document_id = "A"

----------------------------------------------------------------------------
(* Properties of the v3 indexes (specification SpecIndex) *)

\* the chunks of a candidate list
ChunksOf(results) == {results[i].chunk : i \in 1..Len(results)}

\* C21: when a retrieval carries a document scope, every chunk taken from the
\* semantic retriever and every chunk taken from the lexical retriever
\* belongs to that document
C21_ScopedRetrieval ==
    xresponse.request = "ask" /\ xresponse.document_id # <<>> =>
        /\ \A c \in ChunksOf(xresponse.vector) :
              c.document_id = xresponse.document_id[1]
        /\ \A c \in ChunksOf(xresponse.bm25) :
              c.document_id = xresponse.document_id[1]

\* the chunks the BM25 index holds
LexicalIndex == IF xbm25.bm25 THEN Range(xbm25.corpus) ELSE {}

\* the chunks the vector store holds
SemanticIndex == Range(xindexer)

\* C27: after any sequence of upload, delete and reset requests a chunk is in
\* the BM25 index if and only if it is in the vector store
C27_IndexesAgree == LexicalIndex = SemanticIndex

----------------------------------------------------------------------------
(* Properties of the citation snippet (specification SpecSnippet) *)

\* C22: every citation snippet has at most 200 characters; it equals the
\* chunk text when the text has at most 200 characters, and it is a
\* truncation carrying the ellipsis marker only when the text is longer
C22_SnippetAtMost200 ==
    npc = "returned" =>
        /\ Len(nsnippet) <= 200
        /\ Len(ntext) <= 200 => nsnippet = ntext
        /\ nsnippet # ntext =>
              /\ Len(ntext) > 200
              /\ IsPrefix(SubSeq(nsnippet, 1, Len(nsnippet) - 3), ntext)
              /\ SubSeq(nsnippet, Len(nsnippet) - 2, Len(nsnippet)) = ELLIPSIS

----------------------------------------------------------------------------
(* Properties of the chat use case (specification SpecChat) *)

\* the messages of a session, in order of creation
SessionMessages(session_id) ==
    LET ofSession(m) == m.session_id = session_id
    IN  SelectSeq(mtable, ofSession)

\* positions of the table holding a message of this role and content
Stored(role, content) ==
    {i \in 1..Len(mtable) : mtable[i].role = role /\ mtable[i].content = content}

\* messages the session held before the calls
PriorMessages(session_id) ==
    Cardinality({i \in 1..Len(mtable) :
                    /\ mtable[i].session_id = session_id
                    /\ mtable[i].content[Len(mtable[i].content) - 1] = "earlier"})

Alternating(messages) ==
    \A i \in 1..Len(messages) :
        messages[i].role = IF i % 2 = 1 THEN "user" ELSE "assistant"

Quiescent == \A w \in Workers : mpc[w] = "idle"

\* one user message before the RAG call, one assistant message after it, and
\* none for a missing session
OneUserOneAssistant ==
    /\ \A w \in Workers :
          LET asked == Stored("user", mdto[w].question)
              answered == Stored("assistant", <<"answer">> \o mdto[w].question)
          IN  /\ mpc[w] \in {"get_session", "create_user"} =>
                    asked = {} /\ answered = {}
              /\ mpc[w] \in {"history", "rag", "create_assistant"} =>
                    Cardinality(asked) = 1 /\ answered = {}
              /\ mpc[w] = "idle" /\ moutcome[w] = "returned" =>
                    /\ Cardinality(asked) = 1 /\ Cardinality(answered) = 1
                    /\ \A i \in asked, j \in answered : i < j
              /\ mpc[w] = "idle" /\ moutcome[w] = "raised" =>
                    asked = {} /\ answered = {}
    /\ \A i \in 1..Len(mtable) : mtable[i].session_id \in ChatSessions

\* n completed calls leave 2n messages more in the session
TwoPerCall ==
    Quiescent =>
        \A s \in ChatSessions :
            Len(SessionMessages(s)) = PriorMessages(s) + 2 * mcompleted

\* C23 as stated: every call on an existing session stores one user message
\* before the RAG call and one assistant message after it, so n completed
\* calls leave 2n messages in strict user, assistant alternation; a call on a
\* missing session stores nothing
C23_StrictAlternation ==
    /\ OneUserOneAssistant
    /\ TwoPerCall
    /\ Quiescent => \A s \in ChatSessions : Alternating(SessionMessages(s))

\* C23: every call on an existing session stores one user message before the
\* RAG call and one assistant message after it, so n completed calls leave 2n
\* messages, each answer after its question; they alternate user, assistant
\* when no two calls on the session ran at the same time; a call on a missing
\* session stores nothing
C23_AlternationWithoutOverlap ==
    /\ OneUserOneAssistant
    /\ TwoPerCall
    /\ Quiescent /\ ~moverlap =>
          \A s \in ChatSessions : Alternating(SessionMessages(s))

C23_Witness ==
    /\ Quiescent /\ ~moverlap
    /\ mcompleted = 3
    /\ moutcome["w2"] = "raised"
    /\ Len(SessionMessages(1)) = 6
    /\ Alternating(SessionMessages(1))

\* C28: the chat history handed to the RAG service holds only messages stored
\* before the current question, in chronological order, and never the current
\* question, also when two calls on the session interleave
C28_HistoryBeforeQuestion ==
    \A w \in Workers :
        mpc[w] \in {"rag", "create_assistant"} =>
            LET own == CHOOSE i \in Stored("user", mdto[w].question) : TRUE
                at(k) == CHOOSE i \in Stored(mhistory[w][k].role,
                                             mhistory[w][k].content) : TRUE
            IN  /\ \A k \in 1..Len(mhistory[w]) :
                      /\ Stored(mhistory[w][k].role, mhistory[w][k].content) # {}
                      /\ at(k) < own
                      /\ mtable[at(k)].session_id = mdto[w].session_id
                /\ \A k \in 1..(Len(mhistory[w]) - 1) : at(k) < at(k + 1)

----------------------------------------------------------------------------
(* Properties of document processing (specification SpecProcess) *)

\* C24: every processing call that has set the document to PROCESSING ends,
\* by return or by exception, with the stored status READY or FAILED
C24_EndsReadyOrFailed ==
    [][\A w \in Workers :
          ppc[w] # "idle" /\ ppc'[w] = "idle" /\ pset'[w]
              => pdoc'.status \in {"READY", "FAILED"}]_vars

\* C25: at most one execution at a time is past the move to PROCESSING, and a
\* call that is rejected does not touch the chunks
C25_OneExecutionAtATime ==
    /\ \A w, v \in Workers : w # v => ~(Processing(w) /\ Processing(v))
    /\ \A w \in Workers : poutcome[w] = "raised" /\ ~pset[w] => ~ptouched[w]

\* C26: after calls that each ran to completion before the next began, a
\* READY document has num_chunks equal to the number of its stored chunks,
\* the chunks carry the indexes 0..num_chunks-1 once each, and all of them
\* were written by the run that made the document READY
C26_ReadyChunksConsistent ==
    pdoc.status = "READY" /\ ~poverlap =>
        /\ pdoc.num_chunks = Cardinality(pchunks)
        /\ {c.index : c \in pchunks} = 0..(pdoc.num_chunks - 1)
        /\ \A c, e \in pchunks : c.index = e.index => c = e
        /\ \A c \in pchunks : c.run = pdoc.processed_at

C26_Witness ==
    /\ pdoc.status = "READY" /\ ~poverlap
    /\ pdoc.processed_at = 2
    /\ pdoc.num_chunks = 2
    /\ \A w \in Workers : ppc[w] = "idle"
    /\ pruns = 3

----------------------------------------------------------------------------
(* Properties of chunking (specification SpecChunk) *)

\* C30: the start position strictly increases on every loop iteration, for
\* every chunk_size and chunk_overlap the chunking component can be
\* constructed with
C30_StartStrictlyIncreases ==
    [][zpc = "loop" /\ zpc' = "loop" => zstart' > zstart]_vars

====
